---- MODULE Spec2Model ----
(***************************************************************************)
(* Model of the document ingestion script (ingest.py): configuration      *)
(* check, vector index setup, breadth-first listing of the remote folder  *)
(* tree, per-file download and text extraction, batched chunk/embed/upsert *)
(* and the exit status of the run; and of the chat application (app.py)   *)
(* with its conversation logger (chat_logger.py): session state, engine   *)
(* initialization, the error and chat views, prompt handling and logging.  *)
(***************************************************************************)
EXTENDS Integers, Sequences, FiniteSets, TLC

\* ---------------------------------------------------------------- bounds
MaxItems == 4       \* items below the root in the worlds of ListerSpec
MaxFiles == 2       \* items below the root in the worlds of Spec (one more in LoadSpec)
MaxRuns == 2        \* invocations of main over the same remote state
MaxFaults == 1      \* failures of external calls injected into Spec (one more in LoadSpec)
MaxScriptRuns == 3  \* script runs of the chat app in one browser session

\* ------------------------------------------------------- program constants
batch_size == 50
EmbedDimension == 1536
BigYield == batch_size + 1   \* a file yielding more documents than one batch holds

FOLDER == "application/vnd.google-apps.folder"
SHORTCUT == "application/vnd.google-apps.shortcut"
PDF == "application/pdf"
GDOC == "application/vnd.google-apps.document"
GSHEET == "application/vnd.google-apps.spreadsheet"
JPEG == "image/jpeg"
UNKNOWN == "application/octet-stream"

SUPPORTED_MIME_TYPES ==
    { PDF,
      "application/vnd.openxmlformats-officedocument.wordprocessingml.document",
      "application/msword",
      "application/vnd.openxmlformats-officedocument.spreadsheetml.sheet",
      "application/vnd.ms-excel",
      "application/vnd.openxmlformats-officedocument.presentationml.presentation",
      "application/vnd.ms-powerpoint",
      "text/plain",
      "text/csv" }

GOOGLE_EXPORT_TYPES ==
    { GDOC, GSHEET,
      "application/vnd.google-apps.presentation" }

SKIP_MIME_TYPES ==
    { FOLDER, SHORTCUT,
      "application/vnd.google-apps.form",
      JPEG, "image/png", "image/gif", "image/webp", "image/svg+xml",
      "video/mp4", "video/quicktime", "video/x-msvideo",
      "audio/mpeg", "audio/wav",
      "application/zip", "application/x-zip" }

required_vars ==
    { "OPENAI_API_KEY", "PINECONE_API_KEY",
      "GOOGLE_APPLICATION_CREDENTIALS", "GOOGLE_DRIVE_FOLDER_ID" }

\* content types the remote store's items are drawn from
ListerMimes == { FOLDER, SHORTCUT, PDF }
MainMimes == { FOLDER, JPEG, PDF }

Root == 0           \* the configured GOOGLE_DRIVE_FOLDER_ID
IndexName == "rag-index"

VARIABLES
    \* --- the environment of the process and the remote services
    env,              \* the required variables that are set
    credsFileExists,  \* whether the credentials path names an existing file
    drive,            \* remote store: item id -> [parent, mimeType]
    denied,           \* folders whose listing call always fails
    splitPages,       \* whether the store divides a folder's children among pages
    docYield,         \* item id -> number of documents the reader extracts
    docChunks,        \* item id -> chunks per extracted document
    faultsLeft,       \* transient failures the external services may still produce
    indexes,          \* names of the indexes the vector service holds
    vectors,          \* entries of the index: set of [id, chunk]
    \* --- one invocation of main
    run,              \* number of the current invocation
    pc,               \* position in the script
    exit_code,        \* -1 while running, else the process exit code
    outcome,          \* "running" | "completed" | "warn_no_documents" | "error"
    raised,           \* the exception that reached main's handler, "" if none
    netCalls,         \* external calls issued so far in this invocation
    \* --- setup_pinecone_index
    existing_indexes, \* result of pc.list_indexes()
    created,          \* <<>>, or <<the arguments of this invocation's create_index>>
    settled,          \* time.sleep(10) after create_index has returned
    \* --- list_files_recursive
    folders_to_scan,  \* queue of [id, path]
    files_list,       \* result list of [id, mimeType, path]
    current,          \* <<>> or <<[id, path]>>: current_folder, current_path
    page_token,       \* <<>> for None, else <<remaining children>>
    received,         \* items delivered by successful listing calls
    failedFirst,      \* folders whose first listing call failed
    failedLater,      \* folders whose listing failed after a successful page
    dequeued,         \* folders popped from the queue, in order
    \* --- load_documents_from_gdrive
    supported_files,  \* filtered list of file records
    skipped_stats,    \* [skipped, unknown] counters
    documents,        \* accumulated documents: [file, part]
    success_count,
    error_count,
    fileIdx,          \* files of supported_files already processed
    downloadFailed,   \* files for which download_file returned None
    temp_dir,         \* names of the files in the TemporaryDirectory
    local_path,       \* <<>> for None, else <<the path download_file returned>>
    downloads,        \* requests issued to the store, in order: [id, kind]
    extractions,      \* files handed to load_document_from_file, in order
    skip_log,         \* the [SKIP] lines download_file printed: [id, reason]
    \* --- create_and_run_pipeline
    batchStart,       \* loop variable i of the batch loop
    total_nodes,
    batches,          \* batches attempted: [docs, ok]
    runStats,         \* per completed invocation: [docs, allOk, count]
    \* --- the chat app: its surroundings
    sheets_env,       \* what a process finds on its machine: [module, credentials, folder_id]
    spreadsheets,     \* the spreadsheets named SPREADSHEET_NAME, in the order of their
                      \* creation: [title, rows] of the first worksheet of each
    logger_instance,  \* process -> [pc, spreadsheet, worksheet, enabled]: how far its
                      \* get_logger() is and what the ChatLogger holds
    \* --- the chat app: one browser session
    app_pc,           \* "idle" between script runs, "rerun" after st.rerun(), else the
                      \* position in the running script:
                      \* "logger" | "engine" | "view" | "ask" | "answer" | "log"
    script_run,       \* number of script runs started
    event,            \* what started the current script run
    prompt,           \* <<>>, or <<the text st.chat_input returned>>
    rendered,         \* what the last script run displayed: "none" | "error" | "chat"
    session_keys,     \* keys present in st.session_state
    messages,         \* st.session_state.messages: [role, content]
    chat_engine,      \* <<>> for None, else <<the engine>>
    init_error,       \* <<>> for None, else <<the error text>>
    chat_logger,      \* <<>> for None, else <<[enabled, worksheet]>>
    session_id,       \* <<>> while unset, else <<the id>>
    reply,            \* <<>>, or <<[ok, text]>>: what the engine call of this run gave
    init_attempts,    \* calls of initialize_chat_engine: [run, ok]
    engine_calls,     \* calls of chat_engine.chat: [prompt, ok]
    log_failures      \* log writes that raised

\* the part of the environment no step of the script changes
staticVars == << env, credsFileExists, drive, denied, splitPages, docYield, docChunks >>
serviceVars == << faultsLeft, indexes, vectors >>
ctlVars == << run, exit_code, outcome, raised, netCalls >>
setupVars == << existing_indexes, created, settled >>
listerVars == << folders_to_scan, files_list, current, page_token,
                 received, failedFirst, failedLater, dequeued >>
loadVars == << supported_files, skipped_stats, documents, success_count, error_count,
              fileIdx, downloadFailed, temp_dir, local_path, downloads, extractions,
              skip_log >>
pipeVars == << batchStart, total_nodes, batches, runStats >>
appVars == << sheets_env, spreadsheets, logger_instance, app_pc, script_run, event, prompt, rendered, session_keys,
             messages, chat_engine, init_error, chat_logger, session_id, reply,
             init_attempts, engine_calls, log_failures >>
ingestVars ==
    << staticVars, serviceVars, ctlVars, pc, setupVars, listerVars, loadVars, pipeVars >>
vars == << ingestVars, appVars >>

\* ------------------------------------------------------------ the remote tree
Items == DOMAIN drive
Folders == { i \in Items : drive[i].mimeType = FOLDER }
Children(f) == { i \in Items : drive[i].parent = f }

\* a tree: every item hangs below the root or below an earlier folder
IsTree(d, n) ==
    \A i \in 1..n :
        /\ d[i].parent < i
        /\ d[i].parent # Root => d[d[i].parent].mimeType = FOLDER

Trees(max, mimes) ==
    UNION { { d \in [1..n -> [parent : 0..(max - 1), mimeType : mimes]] : IsTree(d, n) }
            : n \in 0..max }

RECURSIVE Ancestors(_)
Ancestors(i) ==
    IF i = Root THEN {} ELSE {drive[i].parent} \cup Ancestors(drive[i].parent)

RECURSIVE SetToSeq(_)
SetToSeq(S) ==
    IF S = {} THEN <<>>
    ELSE LET m == CHOOSE x \in S : \A y \in S : x <= y
         IN <<m>> \o SetToSeq(S \ {m})

Range(s) == { s[k] : k \in 1..Len(s) }

\* an external call fails for a transient reason
TransientFault ==
    /\ faultsLeft > 0
    /\ faultsLeft' = faultsLeft - 1

\* ------------------------------------------------------ list_files_recursive
\* the pages the service may answer with when `rest` is still to be delivered:
\* any part of it, or all of it when the store does not divide
PagesOf(rest) == IF rest = {} \/ ~splitPages THEN {rest} ELSE (SUBSET rest) \ {{}}

\* item['name']: the store has two names to give, so that siblings and nested
\* folders share names
ItemName(i) == IF i % 2 = 1 THEN "a" ELSE "b"

\* a lister that joins with a slash even below the root
NewPathAlwaysSlash(current_path, name) == current_path \o "/" \o name

\* new_path = f"{current_path}/{item['name']}" if current_path else item['name']
NewPath(current_path, name) == IF current_path # "" THEN current_path \o "/" \o name ELSE name

\* the else branch of the loop over items: item['path'] = current_path
FileRecord(i, current_path) ==
    [id |-> i, name |-> ItemName(i), mimeType |-> drive[i].mimeType, path |-> current_path]

FolderEntry(i, current_path) == [id |-> i, path |-> NewPath(current_path, ItemName(i))]

\* a lister that takes a shortcut for a folder to descend into
IsFolderOrShortcutItem(i) == drive[i].mimeType \in {FOLDER, SHORTCUT}

\* if mime_type == 'application/vnd.google-apps.folder'
IsFolderItem(i) == drive[i].mimeType = FOLDER

RECURSIVE FilesOfPage(_, _)
FilesOfPage(items, current_path) ==
    IF items = <<>> THEN <<>>
    ELSE (IF IsFolderItem(Head(items)) THEN <<>>
          ELSE << FileRecord(Head(items), current_path) >>)
         \o FilesOfPage(Tail(items), current_path)

RECURSIVE FoldersOfPage(_, _)
FoldersOfPage(items, current_path) ==
    IF items = <<>> THEN <<>>
    ELSE (IF IsFolderItem(Head(items)) THEN << FolderEntry(Head(items), current_path) >>
          ELSE <<>>)
         \o FoldersOfPage(Tail(items), current_path)

\* a lister that never asks for a second page
NextPageTokenFirstPageOnly(after) == <<>>

\* results.get('nextPageToken'): set while children remain to be delivered
NextPageToken(after) == IF after = {} THEN <<>> ELSE << after >>

\* files_list = []; folders_to_scan = [(folder_id, path)]
ListerEntry ==
    /\ files_list' = <<>>
    /\ folders_to_scan' = << [id |-> Root, path |-> ""] >>
    /\ current' = <<>>
    /\ page_token' = <<>>
    /\ received' = {}
    /\ failedFirst' = {}
    /\ failedLater' = {}
    /\ dequeued' = <<>>

\* while folders_to_scan: current_folder, current_path = folders_to_scan.pop(0)
Dequeue ==
    /\ pc = "scan"
    /\ folders_to_scan # <<>>
    /\ current' = << Head(folders_to_scan) >>
    /\ folders_to_scan' = Tail(folders_to_scan)
    /\ page_token' = <<>>
    /\ dequeued' = Append(dequeued, Head(folders_to_scan).id)
    /\ pc' = "page"
    /\ UNCHANGED << appVars, staticVars, serviceVars, ctlVars, setupVars, files_list, received,
                    failedFirst, failedLater, loadVars, pipeVars >>

\* one successful service.files().list(...).execute() and the loop over its items
ListPage ==
    /\ pc = "page"
    /\ current[1].id \notin denied
    /\ LET rest == IF page_token = <<>> THEN Children(current[1].id) ELSE page_token[1]
       IN \E page \in PagesOf(rest) :
            LET items == SetToSeq(page)
                token == NextPageToken(rest \ page)
            IN /\ files_list' = files_list \o FilesOfPage(items, current[1].path)
               /\ folders_to_scan' = folders_to_scan \o FoldersOfPage(items, current[1].path)
               /\ received' = received \cup page
               /\ page_token' = token
               /\ pc' = IF token = <<>> THEN "scan" ELSE "page"
    /\ netCalls' = netCalls \cup {"drive.list"}
    /\ UNCHANGED << appVars, staticVars, serviceVars, run, exit_code, outcome, raised, setupVars,
                    current, failedFirst, failedLater, dequeued, loadVars, pipeVars >>

\* the listing call raises, for a denied folder always, else for a transient reason
ListingRaises ==
    /\ pc = "page"
    /\ IF current[1].id \in denied THEN UNCHANGED faultsLeft ELSE TransientFault
    /\ IF page_token = <<>>
       THEN failedFirst' = failedFirst \cup {current[1].id} /\ UNCHANGED failedLater
       ELSE failedLater' = failedLater \cup {current[1].id} /\ UNCHANGED failedFirst
    /\ netCalls' = netCalls \cup {"drive.list"}

\* a handler that gives up the whole traversal instead of the folder
ListPageFailAbort ==
    /\ ListingRaises
    /\ folders_to_scan' = <<>>
    /\ pc' = "scan"
    /\ UNCHANGED << appVars, staticVars, indexes, vectors, run, exit_code, outcome, raised, setupVars,
                    files_list, current, page_token, received, dequeued,
                    loadVars, pipeVars >>

\* a handler that throws away what the failed folder had delivered so far
ListPageFailDiscard ==
    /\ ListingRaises
    /\ files_list' = SelectSeq(files_list, LAMBDA r : drive[r.id].parent # current[1].id)
    /\ pc' = "scan"
    /\ UNCHANGED << appVars, staticVars, indexes, vectors, run, exit_code, outcome, raised, setupVars,
                    folders_to_scan, current, page_token, received, dequeued,
                    loadVars, pipeVars >>

\* a handler that asks for the failed page again
ListPageFailRetry ==
    /\ ListingRaises
    /\ pc' = "page"
    /\ UNCHANGED << appVars, staticVars, indexes, vectors, run, exit_code, outcome, raised, setupVars,
                    folders_to_scan, files_list, current, page_token, received, dequeued,
                    loadVars, pipeVars >>

\* except Exception: print warning; break (the folder's pagination ends)
ListPageFail ==
    /\ ListingRaises
    /\ pc' = "scan"
    /\ UNCHANGED << appVars, staticVars, indexes, vectors, run, exit_code, outcome, raised, setupVars,
                    folders_to_scan, files_list, current, page_token, received, dequeued,
                    loadVars, pipeVars >>

\* the queue is empty: return files_list
ListerReturn ==
    /\ pc = "scan"
    /\ folders_to_scan = <<>>
    /\ pc' = "listed"
    /\ UNCHANGED << appVars, staticVars, serviceVars, ctlVars, setupVars, listerVars, loadVars,
                    pipeVars >>

\* the state every invocation starts in
FreshRun ==
    /\ pc = "start"
    /\ exit_code = -1
    /\ outcome = "running"
    /\ raised = ""
    /\ netCalls = {}
    /\ existing_indexes = {}
    /\ created = <<>>
    /\ settled = FALSE
    /\ files_list = <<>>
    /\ folders_to_scan = << [id |-> Root, path |-> ""] >>
    /\ current = <<>>
    /\ page_token = <<>>
    /\ received = {}
    /\ failedFirst = {}
    /\ failedLater = {}
    /\ dequeued = <<>>
    /\ supported_files = <<>>
    /\ skipped_stats = [skipped |-> 0, unknown |-> 0]
    /\ documents = <<>>
    /\ success_count = 0
    /\ error_count = 0
    /\ fileIdx = 0
    /\ downloadFailed = {}
    /\ temp_dir = {}
    /\ local_path = <<>>
    /\ downloads = <<>>
    /\ extractions = <<>>
    /\ skip_log = <<>>
    /\ batchStart = 0
    /\ total_nodes = 0
    /\ batches = <<>>

\* the app is not running
AppNotStarted ==
    /\ sheets_env = [module |-> FALSE, credentials |-> FALSE, folder_id |-> FALSE]
    /\ spreadsheets = <<>>
    /\ logger_instance =
          [p \in {"app", "test"} |->
              [pc |-> "start", spreadsheet |-> 0, worksheet |-> <<>>, enabled |-> FALSE]]
    /\ app_pc = "idle"
    /\ script_run = 0
    /\ event = "none"
    /\ prompt = <<>>
    /\ rendered = "none"
    /\ session_keys = {}
    /\ messages = <<>>
    /\ chat_engine = <<>>
    /\ init_error = <<>>
    /\ chat_logger = <<>>
    /\ session_id = <<>>
    /\ reply = <<>>
    /\ init_attempts = <<>>
    /\ engine_calls = <<>>
    /\ log_failures = 0

\* ------------------------------------------------ list_files_recursive alone
\* list_files_recursive(service, root) called on any tree, with any set of
\* denied folders and any number of transient failures
ListerInit ==
    /\ env = required_vars
    /\ credsFileExists = TRUE
    /\ drive \in Trees(MaxItems, ListerMimes)
    /\ denied \in SUBSET ({Root} \cup { i \in DOMAIN drive : drive[i].mimeType = FOLDER })
    /\ splitPages = TRUE
    /\ docYield = [i \in DOMAIN drive |-> 0]
    /\ docChunks = [i \in DOMAIN drive |-> 1]
    /\ faultsLeft = MaxItems + 1
    /\ indexes = {}
    /\ vectors = {}
    /\ run = 1
    /\ pc = "scan"
    /\ exit_code = -1
    /\ outcome = "running"
    /\ raised = ""
    /\ netCalls = {}
    /\ existing_indexes = {}
    /\ created = <<>>
    /\ settled = FALSE
    /\ files_list = <<>>
    /\ folders_to_scan = << [id |-> Root, path |-> ""] >>
    /\ current = <<>>
    /\ page_token = <<>>
    /\ received = {}
    /\ failedFirst = {}
    /\ failedLater = {}
    /\ dequeued = <<>>
    /\ supported_files = <<>>
    /\ skipped_stats = [skipped |-> 0, unknown |-> 0]
    /\ documents = <<>>
    /\ success_count = 0
    /\ error_count = 0
    /\ fileIdx = 0
    /\ downloadFailed = {}
    /\ temp_dir = {}
    /\ local_path = <<>>
    /\ downloads = <<>>
    /\ extractions = <<>>
    /\ skip_log = <<>>
    /\ batchStart = 0
    /\ total_nodes = 0
    /\ batches = <<>>
    /\ runStats = <<>>
    /\ AppNotStarted

ListerNext == Dequeue \/ ListPage \/ ListPageFail \/ ListerReturn

ListerSpec == ListerInit /\ [][ListerNext]_vars

\* the function's loops run to completion: no step is postponed for ever
ListerFairSpec == ListerSpec /\ WF_vars(ListerNext)

\* the trees on which termination is checked
TermItems == MaxItems - 1

\* list_files_recursive called on any tree of up to TermItems items; every
\* iteration of its loops ends, by an answer or by an exception
ListerTermInit == ListerInit /\ Cardinality(DOMAIN drive) <= TermItems

ListerTermSpec == ListerTermInit /\ [][ListerNext]_vars /\ WF_vars(ListerNext)

\* ------------------------------------------------------------------- main
\* a check that lets every environment pass
MissingNothing(e) == {}

\* missing = [var for var in required_vars if not os.getenv(var)]
Missing(e) == required_vars \ e

\* except Exception as e: print [ERROR], traceback; sys.exit(1)
MainHandler(exc) ==
    /\ pc' = "exited"
    /\ exit_code' = 1
    /\ outcome' = "error"
    /\ raised' = exc

\* settings = get_settings(): raise ValueError if missing
GetSettings ==
    /\ pc = "start"
    /\ IF Missing(env) # {}
       THEN MainHandler("ValueError")
       ELSE /\ pc' = "check_creds"
            /\ UNCHANGED << exit_code, outcome, raised >>
    /\ UNCHANGED << appVars, staticVars, serviceVars, run, netCalls, setupVars,
                    listerVars, loadVars, pipeVars >>

\* if not os.path.exists(creds_path): raise FileNotFoundError
CheckCredentials ==
    /\ pc = "check_creds"
    /\ IF ~credsFileExists
       THEN MainHandler("FileNotFoundError")
       ELSE /\ pc' = "list_indexes"
            /\ UNCHANGED << exit_code, outcome, raised >>
    /\ UNCHANGED << appVars, staticVars, serviceVars, run, netCalls, setupVars,
                    listerVars, loadVars, pipeVars >>

\* ---------------------------------------------------- setup_pinecone_index
\* a setup that creates the index whatever the service already holds
NeedsCreateAlways(name, existing) == TRUE

\* if index_name not in existing_indexes
NeedsCreate(name, existing) == name \notin existing

\* existing_indexes = [idx.name for idx in pc.list_indexes()]
ListIndexes ==
    /\ pc = "list_indexes"
    /\ existing_indexes' = indexes
    /\ pc' = IF NeedsCreate(IndexName, indexes) THEN "create_index" ELSE "describe_index"
    /\ netCalls' = netCalls \cup {"pinecone.list_indexes"}
    /\ UNCHANGED << appVars, staticVars, serviceVars, run, exit_code, outcome, raised, created, settled,
                    listerVars, loadVars, pipeVars >>

\* pc.create_index(name=index_name, dimension=1536, metric="cosine", ...)
CreateIndex ==
    /\ pc = "create_index"
    /\ indexes' = indexes \cup {IndexName}
    /\ created' = << [name |-> IndexName, dimension |-> EmbedDimension, metric |-> "cosine"] >>
    /\ pc' = "settle"
    /\ netCalls' = netCalls \cup {"pinecone.create_index"}
    /\ UNCHANGED << appVars, staticVars, faultsLeft, vectors, run, exit_code, outcome, raised,
                    existing_indexes, settled, listerVars, loadVars, pipeVars >>

\* time.sleep(10)
SettleWait ==
    /\ pc = "settle"
    /\ settled' = TRUE
    /\ pc' = "describe_index"
    /\ UNCHANGED << appVars, staticVars, serviceVars, ctlVars, existing_indexes, created,
                    listerVars, loadVars, pipeVars >>

\* pinecone_index = pc.Index(index_name); stats = describe_index_stats()
DescribeIndex ==
    /\ pc = "describe_index"
    /\ pc' = "drive_service"
    /\ netCalls' = netCalls \cup {"pinecone.describe_index_stats"}
    /\ UNCHANGED << appVars, staticVars, serviceVars, run, exit_code, outcome, raised, setupVars,
                    listerVars, loadVars, pipeVars >>

\* a call of setup_pinecone_index raises: nothing in the function catches it
PineconeError ==
    /\ pc \in {"list_indexes", "create_index", "describe_index"}
    /\ TransientFault
    /\ MainHandler("PineconeError")
    /\ netCalls' = netCalls \cup
          { CASE pc = "list_indexes" -> "pinecone.list_indexes"
              [] pc = "create_index" -> "pinecone.create_index"
              [] OTHER -> "pinecone.describe_index_stats" }
    /\ UNCHANGED << appVars, staticVars, indexes, vectors, run, setupVars,
                    listerVars, loadVars, pipeVars >>

\* ------------------------------------------------- load_documents_from_gdrive
\* service = get_drive_service(...); all_files = list_files_recursive(service, folder_id)
GetDriveService ==
    /\ pc = "drive_service"
    /\ pc' = "scan"
    /\ ListerEntry
    /\ UNCHANGED << appVars, staticVars, serviceVars, ctlVars, setupVars, loadVars, pipeVars >>

\* get_drive_service raises: the credentials file is not a usable service account
DriveServiceError ==
    /\ pc = "drive_service"
    /\ TransientFault
    /\ MainHandler("DriveServiceError")
    /\ UNCHANGED << appVars, staticVars, indexes, vectors, run, netCalls, setupVars,
                    listerVars, loadVars, pipeVars >>

\* if mime_type in SKIP_MIME_TYPES
IsSkipped(mime) == mime \in SKIP_MIME_TYPES

\* a filter that takes every type it does not skip for a supported one
IsSupportedAny(mime) == TRUE

\* elif mime_type in SUPPORTED_MIME_TYPES or mime_type in GOOGLE_EXPORT_TYPES
IsSupported(mime) == mime \in SUPPORTED_MIME_TYPES \/ mime \in GOOGLE_EXPORT_TYPES

\* for f in all_files: classify by mimeType
FilterFiles ==
    /\ pc = "listed"
    /\ supported_files' =
          SelectSeq(files_list, LAMBDA f : ~IsSkipped(f.mimeType) /\ IsSupported(f.mimeType))
    /\ skipped_stats' =
          [skipped |-> Len(SelectSeq(files_list, LAMBDA f : IsSkipped(f.mimeType))),
           unknown |-> Len(SelectSeq(files_list,
                            LAMBDA f : ~IsSkipped(f.mimeType) /\ ~IsSupported(f.mimeType)))]
    /\ documents' = <<>>
    /\ success_count' = 0
    /\ error_count' = 0
    /\ fileIdx' = 0
    /\ downloadFailed' = {}
    /\ temp_dir' = {}
    /\ local_path' = <<>>
    /\ downloads' = <<>>
    /\ extractions' = <<>>
    /\ skip_log' = <<>>
    /\ pc' = "download"
    /\ UNCHANGED << appVars, staticVars, serviceVars, ctlVars, setupVars, listerVars, pipeVars >>

\* GOOGLE_EXPORT_TYPES[mime_type]: what the store is asked to render, and the
\* extension of the local file
ExportOf(mime) ==
    IF mime = GSHEET THEN [export_mime |-> "text/csv", extension |-> ".csv"]
    ELSE [export_mime |-> "text/plain", extension |-> ".txt"]

\* the branch download_file takes on the content type
RequestKind(mime) ==
    IF mime \in GOOGLE_EXPORT_TYPES THEN "export_media"
    ELSE IF mime \in SUPPORTED_MIME_TYPES THEN "get_media"
    ELSE "none"

\* local_path = os.path.join(temp_dir, ...): the name of the file inside temp_dir
LocalPath(file_info) ==
    IF file_info.mimeType \in GOOGLE_EXPORT_TYPES
    THEN file_info.name \o ExportOf(file_info.mimeType).extension
    ELSE file_info.name

\* what a request or the write of the local file may fail with
DownloadErrors(kind) ==
    IF kind = "export_media" THEN {"exportSizeLimitExceeded", "other", "write"}
    ELSE {"fileNotDownloadable", "other", "write"}

\* the except branch of download_file: the [SKIP] line chosen from the message
SkipReason(err) ==
    IF err = "exportSizeLimitExceeded" THEN "Too large for export"
    ELSE IF err = "fileNotDownloadable" THEN "Cannot be downloaded"
    ELSE "Error"

\* download_file returns a path: the request succeeded and the bytes were written
DownloadFile ==
    /\ pc = "download"
    /\ fileIdx < Len(supported_files)
    /\ LET file_info == supported_files[fileIdx + 1]
           kind == RequestKind(file_info.mimeType)
       IN /\ kind # "none"
          /\ downloads' = Append(downloads, [id |-> file_info.id, kind |-> kind])
          /\ temp_dir' = temp_dir \cup {LocalPath(file_info)}
          /\ local_path' = << LocalPath(file_info) >>
          /\ netCalls' = netCalls \cup {"drive." \o kind}
    /\ pc' = "parse"
    /\ UNCHANGED << appVars, staticVars, serviceVars, run, exit_code, outcome, raised, setupVars,
                    listerVars, supported_files, skipped_stats, documents, success_count,
                    error_count, fileIdx, downloadFailed, extractions, skip_log, pipeVars >>

\* download_file returns None: no branch for the content type, or the request or
\* the write raised; a write that raised leaves what open() created
DownloadRaises ==
    /\ pc = "download"
    /\ fileIdx < Len(supported_files)
    /\ LET file_info == supported_files[fileIdx + 1]
           kind == RequestKind(file_info.mimeType)
       IN /\ IF kind = "none"
             THEN UNCHANGED << faultsLeft, downloads, temp_dir, skip_log, netCalls >>
             ELSE /\ TransientFault
                  /\ downloads' = Append(downloads, [id |-> file_info.id, kind |-> kind])
                  /\ netCalls' = netCalls \cup {"drive." \o kind}
                  /\ \E err \in DownloadErrors(kind) :
                        /\ temp_dir' = IF err = "write"
                                       THEN temp_dir \cup {LocalPath(file_info)}
                                       ELSE temp_dir
                        /\ skip_log' = Append(skip_log,
                                         [id |-> file_info.id, reason |-> SkipReason(err)])
          /\ downloadFailed' = downloadFailed \cup {file_info.id}
    /\ local_path' = <<>>

\* a loop that lets the failure of one download end the run
DownloadFailAbort ==
    /\ DownloadRaises
    /\ MainHandler("DownloadError")
    /\ UNCHANGED << appVars, staticVars, indexes, vectors, run, setupVars, listerVars,
                    supported_files, skipped_stats, documents, success_count,
                    error_count, fileIdx, extractions, pipeVars >>

\* a loop that forgets to count the file it could not download
DownloadFailUncounted ==
    /\ DownloadRaises
    /\ fileIdx' = fileIdx + 1
    /\ UNCHANGED << appVars, staticVars, indexes, vectors, run, pc, exit_code, outcome, raised,
                    setupVars, listerVars, supported_files, skipped_stats, documents,
                    success_count, error_count, extractions, pipeVars >>

\* a loop that tries the same file again after a failed download
DownloadFailRetry ==
    /\ DownloadRaises
    /\ error_count' = error_count + 1
    /\ UNCHANGED << appVars, staticVars, indexes, vectors, run, pc, exit_code, outcome, raised,
                    setupVars, listerVars, supported_files, skipped_stats, documents,
                    success_count, fileIdx, extractions, pipeVars >>

\* else: error_count += 1 (local_path is None), and on to the next file
DownloadFail ==
    /\ DownloadRaises
    /\ error_count' = error_count + 1
    /\ fileIdx' = fileIdx + 1
    /\ UNCHANGED << appVars, staticVars, indexes, vectors, run, pc, exit_code, outcome, raised,
                    setupVars, listerVars, supported_files, skipped_stats, documents,
                    success_count, extractions, pipeVars >>

\* metadata = {'file_name': ..., 'file_path': ..., 'source': f"gdrive:{id}"}
MetadataOf(file_info) ==
    [file_name |-> file_info.name,
     file_path |-> file_info.path,
     source |-> "gdrive:" \o ToString(file_info.id)]

\* an update that keeps what the reader had set
UpdateMetadataKeepOld(old, metadata) ==
    [k \in DOMAIN old \cup DOMAIN metadata |->
        IF k \in DOMAIN old THEN old[k] ELSE metadata[k]]

\* doc.metadata.update(metadata)
UpdateMetadata(old, metadata) ==
    [k \in DOMAIN old \cup DOMAIN metadata |->
        IF k \in DOMAIN metadata THEN metadata[k] ELSE old[k]]

\* docs = reader.load_data(): one document per part the reader finds in the
\* file, each with the reader's own metadata of the local file
ReaderDocs(file, path) ==
    [k \in 1..docYield[file] |->
        [file |-> file, part |-> k,
         metadata |-> [file_name |-> path, file_path |-> "tmp/" \o path,
                       file_type |-> drive[file].mimeType]]]

\* a file the reader makes nothing of either makes it raise or comes back empty
ReaderRaises(file) == IF docYield[file] = 0 THEN BOOLEAN ELSE {FALSE}

\* load_document_from_file: the reader's documents with the metadata attached;
\* None (here the empty list) when the reader raised or found nothing
LoadDocumentFromFile(file, path, metadata, raises) ==
    IF raises THEN <<>>
    ELSE LET docs == ReaderDocs(file, path)
         IN [k \in 1..Len(docs) |->
                [docs[k] EXCEPT !.metadata = UpdateMetadata(@, metadata)]]

\* a loop that counts every downloaded file as parsed
ParsedOkAlways(docs) == TRUE

\* if docs: (a file counts as parsed when the reader returned documents)
ParsedOk(docs) == docs # <<>>

\* docs = load_document_from_file(local_path, metadata); extend and count
LoadDocument ==
    /\ pc = "parse"
    /\ LET file_info == supported_files[fileIdx + 1]
       IN /\ \E raises \in ReaderRaises(file_info.id) :
                LET docs == LoadDocumentFromFile(file_info.id, local_path[1],
                                                 MetadataOf(file_info), raises)
                IN IF ParsedOk(docs)
                   THEN /\ documents' = documents \o docs
                        /\ success_count' = success_count + 1
                        /\ UNCHANGED error_count
                   ELSE /\ error_count' = error_count + 1
                        /\ UNCHANGED << documents, success_count >>
          /\ extractions' = Append(extractions, file_info.id)
    /\ pc' = "cleanup"
    /\ UNCHANGED << appVars, staticVars, serviceVars, ctlVars, setupVars, listerVars,
                    supported_files, skipped_stats, fileIdx, downloadFailed, temp_dir,
                    local_path, downloads, skip_log, pipeVars >>

\* try: os.remove(local_path) except: pass; the loop goes on to the next file
RemoveArtifact ==
    /\ pc = "cleanup"
    /\ \/ /\ temp_dir' = temp_dir \ {local_path[1]}
          /\ UNCHANGED faultsLeft
       \/ /\ TransientFault
          /\ UNCHANGED temp_dir
    /\ fileIdx' = fileIdx + 1
    /\ pc' = "download"
    /\ UNCHANGED << appVars, staticVars, indexes, vectors, ctlVars, setupVars, listerVars,
                    supported_files, skipped_stats, documents, success_count, error_count,
                    downloadFailed, local_path, downloads, extractions, skip_log,
                    pipeVars >>

\* if not documents
NoDocuments(docs) == docs = <<>>

\* a main that reports an empty result like any other error
LoadReturnAsError ==
    /\ pc = "download"
    /\ fileIdx = Len(supported_files)
    /\ IF NoDocuments(documents)
       THEN MainHandler("ValueError")
       ELSE /\ pc' = "pipeline"
            /\ UNCHANGED << exit_code, outcome, raised >>
    /\ temp_dir' = {}
    /\ UNCHANGED << appVars, staticVars, serviceVars, run, netCalls, setupVars, listerVars,
                    supported_files, skipped_stats, documents, success_count, error_count,
                    fileIdx, downloadFailed, local_path, downloads, extractions, skip_log,
                    pipeVars >>

\* a main that goes on to the pipeline even with an empty document list
LoadReturnUnchecked ==
    /\ pc = "download"
    /\ fileIdx = Len(supported_files)
    /\ pc' = "pipeline"
    /\ temp_dir' = {}
    /\ UNCHANGED << appVars, staticVars, serviceVars, ctlVars, setupVars, listerVars,
                    supported_files, skipped_stats, documents, success_count, error_count,
                    fileIdx, downloadFailed, local_path, downloads, extractions, skip_log,
                    pipeVars >>

\* a loop that hands over to the pipeline as soon as it holds a document
LoadReturnEarly ==
    /\ pc = "download"
    /\ fileIdx = Len(supported_files) \/ ~NoDocuments(documents)
    /\ IF NoDocuments(documents)
       THEN /\ pc' = "exited"
            /\ exit_code' = 1
            /\ outcome' = "warn_no_documents"
       ELSE /\ pc' = "pipeline"
            /\ UNCHANGED << exit_code, outcome >>
    /\ temp_dir' = {}
    /\ UNCHANGED << appVars, staticVars, serviceVars, run, raised, netCalls, setupVars, listerVars,
                    supported_files, skipped_stats, documents, success_count, error_count,
                    fileIdx, downloadFailed, local_path, downloads, extractions, skip_log,
                    pipeVars >>

\* the with block ends (the directory is removed) and documents is returned;
\* back in main: if not documents: [WARN] ...; sys.exit(1)
LoadReturn ==
    /\ pc = "download"
    /\ fileIdx = Len(supported_files)
    /\ IF NoDocuments(documents)
       THEN /\ pc' = "exited"
            /\ exit_code' = 1
            /\ outcome' = "warn_no_documents"
       ELSE /\ pc' = "pipeline"
            /\ UNCHANGED << exit_code, outcome >>
    /\ temp_dir' = {}
    /\ UNCHANGED << appVars, staticVars, serviceVars, run, raised, netCalls, setupVars, listerVars,
                    supported_files, skipped_stats, documents, success_count, error_count,
                    fileIdx, downloadFailed, local_path, downloads, extractions, skip_log,
                    pipeVars >>

\* ---------------------------------------------------- create_and_run_pipeline
Min(a, b) == IF a < b THEN a ELSE b

\* batch = documents[i:i+batch_size]
Batch(docs, i) == SubSeq(docs, i + 1, Min(i + batch_size, Len(docs)))

RECURSIVE ChunkCount(_)
ChunkCount(batch) ==
    IF batch = <<>> THEN 0 ELSE docChunks[Head(batch).file] + ChunkCount(Tail(batch))

\* the id of a node: nothing in the script sets one, so the splitter gives every
\* node it builds a fresh uuid4, a value unique to the invocation that built it
NodeId(r, chunk) == << r, chunk >>

\* the nodes of a batch: every chunk of every document
NodesOf(batch, r) ==
    UNION { { [id |-> NodeId(r, << batch[k].file, batch[k].part, c >>),
               chunk |-> << batch[k].file, batch[k].part, c >>]
              : c \in 1..docChunks[batch[k].file] }
            : k \in 1..Len(batch) }

\* embed_model, text_splitter, pipeline are built; batch_size = 50; total_nodes = 0
PipelineSetup ==
    /\ pc = "pipeline"
    /\ batchStart' = 0
    /\ total_nodes' = 0
    /\ batches' = <<>>
    /\ pc' = "batch"
    /\ UNCHANGED << appVars, staticVars, serviceVars, ctlVars, setupVars, listerVars, loadVars,
                    runStats >>

\* a constructor of the pipeline raises: create_and_run_pipeline catches nothing here
PipelineSetupError ==
    /\ pc = "pipeline"
    /\ TransientFault
    /\ MainHandler("PipelineSetupError")
    /\ UNCHANGED << appVars, staticVars, indexes, vectors, run, netCalls, setupVars,
                    listerVars, loadVars, pipeVars >>

\* nodes = pipeline.run(documents=batch); total_nodes += len(nodes)
RunBatch ==
    /\ pc = "batch"
    /\ batchStart < Len(documents)
    /\ LET batch == Batch(documents, batchStart)
       IN /\ vectors' = vectors \cup NodesOf(batch, run)
          /\ total_nodes' = total_nodes + ChunkCount(batch)
          /\ batches' = Append(batches, [docs |-> batch, ok |-> TRUE])
    /\ batchStart' = batchStart + batch_size
    /\ netCalls' = netCalls \cup {"openai.embed", "pinecone.upsert"}
    /\ UNCHANGED << appVars, staticVars, faultsLeft, indexes, run, pc, exit_code, outcome, raised,
                    setupVars, listerVars, loadVars, runStats >>

\* pipeline.run raises before anything is written (an embedding call errors)
BatchRaises ==
    /\ pc = "batch"
    /\ batchStart < Len(documents)
    /\ TransientFault
    /\ batches' = Append(batches, [docs |-> Batch(documents, batchStart), ok |-> FALSE])
    /\ netCalls' = netCalls \cup {"openai.embed"}

\* a batch loop that lets the error end the run
RunBatchFailAbort ==
    /\ BatchRaises
    /\ MainHandler("BatchError")
    /\ UNCHANGED << appVars, staticVars, indexes, vectors, run, setupVars,
                    listerVars, loadVars, batchStart, total_nodes, runStats >>

\* a batch loop that adds the chunks of a failed batch to the total
RunBatchFailCounted ==
    /\ BatchRaises
    /\ batchStart' = batchStart + batch_size
    /\ total_nodes' = total_nodes + ChunkCount(Batch(documents, batchStart))
    /\ UNCHANGED << appVars, staticVars, indexes, vectors, run, pc, exit_code, outcome, raised,
                    setupVars, listerVars, loadVars, runStats >>

\* except Exception: print warning; the loop goes on with the next batch
RunBatchFail ==
    /\ BatchRaises
    /\ batchStart' = batchStart + batch_size
    /\ UNCHANGED << appVars, staticVars, indexes, vectors, run, pc, exit_code, outcome, raised,
                    setupVars, listerVars, loadVars, total_nodes, runStats >>

\* return total_nodes; main prints the summary and returns: exit code 0
PipelineReturn ==
    /\ pc = "batch"
    /\ batchStart >= Len(documents)
    /\ pc' = "exited"
    /\ exit_code' = 0
    /\ outcome' = "completed"
    /\ runStats' = Append(runStats,
                     [docs |-> { << d.file, d.part >> : d \in Range(documents) },
                      allOk |-> \A k \in 1..Len(batches) : batches[k].ok,
                      count |-> Cardinality(vectors)])
    /\ UNCHANGED << appVars, staticVars, serviceVars, run, raised, netCalls, setupVars,
                    listerVars, loadVars, batchStart, total_nodes, batches >>

\* python ingest.py is started again over the same remote state
Rerun ==
    /\ pc = "exited"
    /\ run < MaxRuns
    /\ run' = run + 1
    /\ pc' = "start"
    /\ exit_code' = -1
    /\ outcome' = "running"
    /\ raised' = ""
    /\ netCalls' = {}
    /\ existing_indexes' = {}
    /\ created' = <<>>
    /\ settled' = FALSE
    /\ ListerEntry
    /\ supported_files' = <<>>
    /\ skipped_stats' = [skipped |-> 0, unknown |-> 0]
    /\ documents' = <<>>
    /\ success_count' = 0
    /\ error_count' = 0
    /\ fileIdx' = 0
    /\ downloadFailed' = {}
    /\ temp_dir' = {}
    /\ local_path' = <<>>
    /\ downloads' = <<>>
    /\ extractions' = <<>>
    /\ skip_log' = <<>>
    /\ batchStart' = 0
    /\ total_nodes' = 0
    /\ batches' = <<>>
    /\ UNCHANGED << appVars, staticVars, serviceVars, runStats >>

\* --------------------------------------- load_documents_from_gdrive alone
\* content types of the stores of LoadSpec: every class of the filter and both
\* branches of download_file
LoadMimes == { FOLDER, SHORTCUT, JPEG, UNKNOWN, PDF, GDOC }

\* what the reader makes of a supported file there: nothing, or two documents
LoadYields == { 0, 2 }

\* load_documents_from_gdrive(settings) called with a valid configuration on any
\* tree; the store, the reader and the local disk may fail
LoadInit ==
    /\ env = required_vars
    /\ credsFileExists = TRUE
    /\ drive \in Trees(MaxFiles + 1, LoadMimes)
    /\ denied = {}
    /\ splitPages = FALSE
    /\ docYield \in [DOMAIN drive -> LoadYields]
    /\ \A i \in DOMAIN drive : ~IsSupported(drive[i].mimeType) => docYield[i] = 0
    /\ docChunks = [i \in DOMAIN drive |-> 1]
    /\ faultsLeft = MaxFaults + 1
    /\ indexes = {IndexName}
    /\ vectors = {}
    /\ run = 1
    /\ pc = "drive_service"
    /\ exit_code = -1
    /\ outcome = "running"
    /\ raised = ""
    /\ netCalls = {}
    /\ existing_indexes = {IndexName}
    /\ created = <<>>
    /\ settled = FALSE
    /\ files_list = <<>>
    /\ folders_to_scan = << [id |-> Root, path |-> ""] >>
    /\ current = <<>>
    /\ page_token = <<>>
    /\ received = {}
    /\ failedFirst = {}
    /\ failedLater = {}
    /\ dequeued = <<>>
    /\ supported_files = <<>>
    /\ skipped_stats = [skipped |-> 0, unknown |-> 0]
    /\ documents = <<>>
    /\ success_count = 0
    /\ error_count = 0
    /\ fileIdx = 0
    /\ downloadFailed = {}
    /\ temp_dir = {}
    /\ local_path = <<>>
    /\ downloads = <<>>
    /\ extractions = <<>>
    /\ skip_log = <<>>
    /\ batchStart = 0
    /\ total_nodes = 0
    /\ batches = <<>>
    /\ runStats = <<>>
    /\ AppNotStarted

LoadNext ==
    \/ GetDriveService \/ DriveServiceError
    \/ Dequeue \/ ListPage \/ ListPageFail \/ ListerReturn
    \/ FilterFiles \/ DownloadFile \/ DownloadFail \/ LoadDocument \/ RemoveArtifact
    \/ LoadReturn

LoadSpec == LoadInit /\ [][LoadNext]_vars

\* what the reader makes of a supported file: nothing (corrupt), one document
\* of two chunks, or more one-chunk documents than one batch holds
FileShapes ==
    { [yield |-> 0, chunks |-> 1],
      [yield |-> 1, chunks |-> 2],
      [yield |-> BigYield, chunks |-> 1] }

\* the configuration lets the run reach the remote services
ConfigOk == required_vars \subseteq env /\ credsFileExists

\* the remote stores of Spec: a tree and, per supported file, what the reader
\* makes of it; one file of a store at most is a large one
Worlds ==
    { w \in [drive : Trees(MaxFiles, MainMimes), shape : [1..MaxFiles -> FileShapes]] :
        /\ \A i \in 1..MaxFiles :
              (i \notin DOMAIN w.drive \/ ~IsSupported(w.drive[i].mimeType))
                  => w.shape[i] = [yield |-> 0, chunks |-> 1]
        /\ Cardinality({ i \in 1..MaxFiles : w.shape[i].yield = BigYield }) <= 1 }

\* a run that stops at the configuration checks never consults the remote
\* store, which is then left empty; the store of Spec answers every folder in
\* one page and denies none (ListerSpec has the divisions and the denials)
Init ==
    /\ env \in SUBSET required_vars
    /\ credsFileExists \in BOOLEAN
    /\ \E w \in Worlds :
          /\ ConfigOk \/ w.drive = << >>
          /\ drive = w.drive
          /\ docYield = [i \in DOMAIN w.drive |-> w.shape[i].yield]
          /\ docChunks = [i \in DOMAIN w.drive |-> w.shape[i].chunks]
    /\ denied = {}
    /\ splitPages = FALSE
    /\ faultsLeft = MaxFaults
    /\ indexes \in SUBSET {IndexName, "other-index"}
    /\ vectors = {}
    /\ run = 1
    /\ FreshRun
    /\ runStats = <<>>
    /\ AppNotStarted

Next ==
    \/ GetSettings \/ CheckCredentials
    \/ ListIndexes \/ CreateIndex \/ SettleWait \/ DescribeIndex \/ PineconeError
    \/ GetDriveService \/ DriveServiceError
    \/ Dequeue \/ ListPage \/ ListPageFail \/ ListerReturn
    \/ FilterFiles \/ DownloadFile \/ DownloadFail \/ LoadDocument \/ RemoveArtifact
    \/ LoadReturn
    \/ PipelineSetup \/ PipelineSetupError \/ RunBatch \/ RunBatchFail \/ PipelineReturn
    \/ Rerun

Spec == Init /\ [][Next]_vars

\* ===================================================================== app.py
\* ------------------------------------------------------------- chat_logger.py
\* a text, by what the logger looks at: which text it is and how long it is
Text(t, n) == [text |-> t, len |-> n]

\* s[:n] if len(s) > n else s
Truncate(s, n) == IF s.len > n THEN [s EXCEPT !.len = n] ELSE s

Header == [kind |-> "header"]

\* the processes that build a ChatLogger: the server of the app, for its
\* browser session, and python chat_logger.py
Procs == { "app", "test" }

\* what a process finds on its machine: whether gspread can be imported,
\* whether get_credentials finds credentials, whether get_folder_id finds a
\* folder id (read only when credentials are found)
SheetsEnvs ==
    { [module |-> FALSE, credentials |-> FALSE, folder_id |-> FALSE],
      [module |-> TRUE, credentials |-> FALSE, folder_id |-> FALSE],
      [module |-> TRUE, credentials |-> TRUE, folder_id |-> FALSE],
      [module |-> TRUE, credentials |-> TRUE, folder_id |-> TRUE] }

\* the spreadsheets named SPREADSHEET_NAME before anything connects: none, or
\* one whose first worksheet has or has not been renamed and has or has not a
\* header row (met only with credentials; the folder id is read only when the
\* spreadsheet is missing)
SheetsBefore(e) ==
    IF e.credentials /\ e.folder_id
    THEN { <<>> } \cup { << [title |-> t, rows |-> r] >> :
                            t \in {"Sheet1", "Conversations"}, r \in { <<>>, << Header >> } }
    ELSE { <<>> }

Disabled == [enabled |-> FALSE, worksheet |-> <<>>]
Connected == [enabled |-> TRUE, worksheet |-> << "Conversations" >>]
\* the first worksheet under its old title: update_title raised and was ignored
ConnectedUnrenamed == [enabled |-> TRUE, worksheet |-> << "Sheet1" >>]

\* a process that has not called get_logger
NoLogger == [pc |-> "start", spreadsheet |-> 0, worksheet |-> <<>>, enabled |-> FALSE]

\* if not first_row or first_row[0] != "Timestamp"
NeedsHeader(rows) == IF rows = <<>> THEN TRUE ELSE rows[1] # Header

\* insert_row(headers, index=1)
WithHeader(rows) == << Header >> \o rows

\* row = [timestamp, session_id, user_msg, assistant_msg, response_time]: the
\* row of a turn, without its two time fields
TurnRow(sid, user_message, assistant_response) ==
    [kind |-> "turn", session |-> sid,
     user |-> Truncate(user_message, 5000),
     assistant |-> Truncate(assistant_response, 10000)]

\* log_conversation: if not self.enabled: return; the row is appended unless
\* the write raises, which the method catches
LogConversation(lg, rows, row, writeFails) ==
    IF ~lg.enabled THEN rows
    ELSE IF lg.worksheet = <<>> \/ writeFails THEN rows
    ELSE Append(rows, row)

\* log_chat: logger = get_logger(); logger.log_conversation(...)
LogChat(lg, rows, sid, user_message, assistant_response, writeFails) ==
    LogConversation(lg, rows, TurnRow(sid, user_message, assistant_response), writeFails)

TestSessionId == "test-session-001"

\* process p is inside get_logger at the given request
At(p, where) ==
    /\ p = "app" => app_pc = "logger"
    /\ logger_instance[p].pc = where

\* what no step of a logger changes
LoggerFrame ==
    UNCHANGED << ingestVars, sheets_env, script_run, event, prompt, rendered, messages,
                 chat_engine, init_error, session_id, reply, init_attempts, engine_calls,
                 log_failures >>

\* process p goes on to its next request, holding spreadsheet s and worksheet w
Goto(p, where, s, w) ==
    /\ logger_instance' = [logger_instance EXCEPT
          ![p] = [pc |-> where, spreadsheet |-> s, worksheet |-> w, enabled |-> FALSE]]
    /\ UNCHANGED << chat_logger, session_keys, app_pc >>
    /\ LoggerFrame

\* a process whose script has ended: its logger is gone
Exited == [pc |-> "done", spreadsheet |-> 0, worksheet |-> <<>>, enabled |-> FALSE]

\* ChatLogger() returns in process p: the app keeps the logger in its session
\* and goes on; the script block logs its test turn if the logger is enabled,
\* and ends
Returns(p, s, lg) ==
    /\ logger_instance' = [logger_instance EXCEPT
          ![p] = IF p = "test" /\ ~lg.enabled THEN Exited
                 ELSE [pc |-> IF p = "test" THEN "log_chat" ELSE "done",
                       spreadsheet |-> s, worksheet |-> lg.worksheet,
                       enabled |-> lg.enabled]]
    /\ IF p = "app"
       THEN /\ chat_logger' = << lg >>
            /\ session_keys' = session_keys \cup {"chat_logger"}
            /\ app_pc' = "engine"
       ELSE UNCHANGED << chat_logger, session_keys, app_pc >>
    /\ LoggerFrame

\* from chat_logger import get_logger; get_logger(): get_credentials and
\* gspread.authorize. Without the module the import raises: the app keeps None,
\* the script ends
GetLogger ==
    \E p \in Procs :
       /\ At(p, "start")
       /\ UNCHANGED spreadsheets
       /\ IF ~sheets_env.module
          THEN /\ logger_instance' = [logger_instance EXCEPT ![p] = Exited]
               /\ IF p = "app"
                  THEN /\ chat_logger' = <<>>
                       /\ session_keys' = session_keys \cup {"chat_logger"}
                       /\ app_pc' = "engine"
                  ELSE UNCHANGED << chat_logger, session_keys, app_pc >>
               /\ LoggerFrame
          ELSE IF ~sheets_env.credentials
               THEN Returns(p, 0, Disabled)
               ELSE Goto(p, "open", 0, <<>>)

\* client.open(SPREADSHEET_NAME): one of the spreadsheets of that name, or
\* SpreadsheetNotFound, or an exception that ends _initialize
OpenSpreadsheet ==
    \E p \in Procs :
       /\ At(p, "open")
       /\ UNCHANGED spreadsheets
       /\ \/ \E s \in DOMAIN spreadsheets : Goto(p, "worksheet", s, <<>>)
          \/ spreadsheets = <<>> /\ Goto(p, "create", 0, <<>>)
          \/ Returns(p, 0, Disabled)

\* client.create(SPREADSHEET_NAME[, folder_id]); any exception from here to the
\* header row makes get_or_create_spreadsheet return None
CreateSpreadsheet ==
    \E p \in Procs :
       /\ At(p, "create")
       /\ \/ /\ spreadsheets' = Append(spreadsheets, [title |-> "Sheet1", rows |-> <<>>])
             /\ Goto(p, IF sheets_env.folder_id THEN "setup_sheet1" ELSE "share",
                     Len(spreadsheets) + 1, <<>>)
          \/ UNCHANGED spreadsheets /\ Returns(p, 0, Disabled)

\* spreadsheet.share(SHARE_EMAIL, ...), where no folder id is set
ShareSpreadsheet ==
    \E p \in Procs :
       /\ At(p, "share")
       /\ UNCHANGED spreadsheets
       /\ \/ Goto(p, "setup_sheet1", logger_instance[p].spreadsheet, <<>>)
          \/ Returns(p, 0, Disabled)

\* worksheet = spreadsheet.sheet1, of the spreadsheet just created
SetupFirstSheet ==
    \E p \in Procs :
       /\ At(p, "setup_sheet1")
       /\ UNCHANGED spreadsheets
       /\ \/ Goto(p, "setup_title", logger_instance[p].spreadsheet, <<>>)
          \/ Returns(p, 0, Disabled)

\* worksheet.update_title(WORKSHEET_NAME)
SetupTitle ==
    \E p \in Procs :
       LET s == logger_instance[p].spreadsheet
       IN /\ At(p, "setup_title")
          /\ \/ /\ spreadsheets' = [spreadsheets EXCEPT ![s].title = "Conversations"]
                /\ Goto(p, "setup_header", s, <<>>)
             \/ UNCHANGED spreadsheets /\ Returns(p, 0, Disabled)

\* worksheet.append_row(headers)
SetupHeader ==
    \E p \in Procs :
       LET s == logger_instance[p].spreadsheet
       IN /\ At(p, "setup_header")
          /\ \/ /\ spreadsheets' = [spreadsheets EXCEPT ![s].rows = Append(@, Header)]
                /\ Goto(p, "setup_format", s, <<>>)
             \/ UNCHANGED spreadsheets /\ Returns(p, 0, Disabled)

\* worksheet.format('A1:E1', bold), which changes no row and whose exception
\* is ignored; return spreadsheet
SetupFormat ==
    \E p \in Procs :
       /\ At(p, "setup_format")
       /\ UNCHANGED spreadsheets
       /\ Goto(p, "worksheet", logger_instance[p].spreadsheet, <<>>)

\* self.worksheet = self.spreadsheet.worksheet(WORKSHEET_NAME): found, or
\* WorksheetNotFound, or an exception that ends _initialize
GetWorksheet ==
    \E p \in Procs :
       LET s == logger_instance[p].spreadsheet
       IN /\ At(p, "worksheet")
          /\ UNCHANGED spreadsheets
          /\ \/ /\ spreadsheets[s].title = "Conversations"
                /\ Goto(p, "row_values", s, << "Conversations" >>)
             \/ /\ spreadsheets[s].title # "Conversations"
                /\ Goto(p, "sheet1", s, <<>>)
             \/ Returns(p, s, Disabled)

\* self.worksheet = self.spreadsheet.sheet1: the first worksheet, under the
\* title it has now; an exception ends _initialize
UseFirstSheet ==
    \E p \in Procs :
       LET s == logger_instance[p].spreadsheet
       IN /\ At(p, "sheet1")
          /\ UNCHANGED spreadsheets
          /\ \/ Goto(p, "update_title", s, << spreadsheets[s].title >>)
             \/ Returns(p, s, Disabled)

\* self.worksheet.update_title(WORKSHEET_NAME); its exception is ignored and
\* the worksheet keeps the title it was fetched under
RenameFirstSheet ==
    \E p \in Procs :
       LET s == logger_instance[p].spreadsheet
       IN /\ At(p, "update_title")
          /\ \/ /\ spreadsheets' = [spreadsheets EXCEPT ![s].title = "Conversations"]
                /\ Goto(p, "row_values", s, << "Conversations" >>)
             \/ /\ UNCHANGED spreadsheets
                /\ Goto(p, "row_values", s, logger_instance[p].worksheet)

\* first_row = self.worksheet.row_values(1) and the test on it; an exception
\* is ignored and the logger is enabled
CheckHeader ==
    \E p \in Procs :
       LET s == logger_instance[p].spreadsheet
           w == logger_instance[p].worksheet
       IN /\ At(p, "row_values")
          /\ UNCHANGED spreadsheets
          /\ \/ /\ NeedsHeader(spreadsheets[s].rows)
                /\ Goto(p, "insert_row", s, w)
             \/ /\ ~NeedsHeader(spreadsheets[s].rows)
                /\ Returns(p, s, [enabled |-> TRUE, worksheet |-> w])
             \/ Returns(p, s, [enabled |-> TRUE, worksheet |-> w])

\* self.worksheet.insert_row(headers, index=1), its exception ignored;
\* self.enabled = True
InsertHeader ==
    \E p \in Procs :
       LET s == logger_instance[p].spreadsheet
           w == logger_instance[p].worksheet
       IN /\ At(p, "insert_row")
          /\ \/ spreadsheets' = [spreadsheets EXCEPT ![s].rows = WithHeader(@)]
             \/ UNCHANGED spreadsheets
          /\ Returns(p, s, [enabled |-> TRUE, worksheet |-> w])

\* python chat_logger.py with an enabled logger: log_chat of the test turn
LogTestTurn ==
    LET lg == logger_instance["test"]
    IN /\ lg.pc = "log_chat"
       /\ \E writeFails \in BOOLEAN :
             spreadsheets' = [spreadsheets EXCEPT ![lg.spreadsheet].rows =
                LogChat(lg, @, TestSessionId,
                        Text("Dies ist eine Testnachricht", 27),
                        Text("Dies ist eine Testantwort vom Assistenten.", 42),
                        writeFails)]
       /\ logger_instance' = [logger_instance EXCEPT !["test"] = Exited]
       /\ UNCHANGED << chat_logger, session_keys, app_pc >>
       /\ LoggerFrame

\* whether python chat_logger.py has run to its end
selftest_done == logger_instance["test"].pc = "done"

\* --------------------------------------------------------------------- app.py
\* what the user may type
Prompts == { Text("hello", 5), Text("essay", 5001) }

\* str(response) of the engine for a prompt
ResponseTo(p) == Text("re:" \o p.text, IF p.len > 5000 THEN 10001 ELSE 7)

\* f"Fehler: {str(e)}" for an exception of the engine
ErrorMsg == Text("Fehler: engine", 14)

\* the same when chat_engine is None: the attribute lookup raises
NoEngineMsg == Text("Fehler: 'NoneType' object has no attribute 'chat'", 49)

UserMessage(p) == [role |-> "user", content |-> p]
AssistantMessage(t) == [role |-> "assistant", content |-> t]

\* required_keys of get_settings, in the order of the list
RequiredSecrets == << "OPENROUTER_API_KEY", "OPENAI_API_KEY", "PINECONE_API_KEY" >>

\* ', '.join(missing), for the keys of the list at the positions given
RECURSIVE JoinMissing(_, _)
JoinMissing(k, missing) ==
    IF k > Len(RequiredSecrets) THEN ""
    ELSE IF k \notin missing THEN JoinMissing(k + 1, missing)
    ELSE IF \E j \in missing : j > k
         THEN RequiredSecrets[k] \o ", " \o JoinMissing(k + 1, missing)
         ELSE RequiredSecrets[k]

\* get_secret("PINECONE_INDEX_NAME", "rag-index")
IndexNames == { IndexName, "other-index" }

\* the texts of the ValueErrors rag_engine.py raises: get_settings with some
\* required secret missing, get_vector_store with the configured index absent
ValueErrorTexts ==
    { "Missing required secrets: " \o JoinMissing(1, missing) :
         missing \in (SUBSET (DOMAIN RequiredSecrets)) \ { {} } }
    \cup { "Pinecone index '" \o n \o "' not found. "
             \o "Please run ingest.py first to create and populate the index." :
           n \in IndexNames }

\* the ways get_chat_engine ends
InitOutcomes ==
    { [kind |-> "engine", text |-> ""], [kind |-> "Exception", text |-> "timeout"] }
        \cup { [kind |-> "ValueError", text |-> t] : t \in ValueErrorTexts }

\* initialize_chat_engine: the engine, or (None, error_message)
InitializeChatEngine(o) ==
    CASE o.kind = "engine"     -> [engine |-> << "engine" >>, error |-> <<>>]
      [] o.kind = "ValueError" -> [engine |-> <<>>, error |-> << o.text >>]
      [] OTHER -> [engine |-> <<>>,
                   error |-> << "Initialisierung fehlgeschlagen: " \o o.text >>]

\* an app that tries again whenever it has no engine
NeedsInitWithoutEngine(engine, error) == engine = <<>>

\* if st.session_state.chat_engine is None and st.session_state.init_error is None
NeedsInit(engine, error) == engine = <<>> /\ error = <<>>

\* if st.session_state.init_error
ErrorShown(error) == error # <<>> /\ error[1] # ""

\* if st.session_state.chat_logger and st.session_state.chat_logger.enabled
LoggingOn(lg) == lg # <<>> /\ lg[1].enabled

\* what can start a script run: the first load, or an event on a widget the
\* last run displayed (the reconnect button below the error box; the clear
\* button and the chat input of the chat view), or a rerun with no widget set
EventsAfter(position, view) ==
    IF position = "rerun" THEN { [kind |-> "rerun", prompt |-> <<>>] }
    ELSE CASE view = "none"  -> { [kind |-> "open", prompt |-> <<>>] }
           [] view = "error" -> { [kind |-> k, prompt |-> <<>>] : k \in {"refresh", "reconnect"} }
           [] OTHER -> { [kind |-> k, prompt |-> <<>>] : k \in {"refresh", "clear"} }
                         \cup { [kind |-> "prompt", prompt |-> << p >>] : p \in Prompts }

\* a script run starts: display_header; the session state is set up where the
\* session does not hold it yet, and get_logger is called where the session
\* holds no logger
BeginRun ==
    /\ app_pc \in {"idle", "rerun"}
    /\ script_run < MaxScriptRuns
    /\ script_run' = script_run + 1
    /\ \E ev \in EventsAfter(app_pc, rendered) :
          /\ event' = ev.kind
          /\ prompt' = ev.prompt
    /\ messages' = IF "messages" \in session_keys THEN messages ELSE <<>>
    /\ chat_engine' = IF "chat_engine" \in session_keys THEN chat_engine ELSE <<>>
    /\ init_error' = IF "chat_engine" \in session_keys THEN init_error ELSE <<>>
    /\ session_keys' = session_keys \cup {"messages", "chat_engine", "init_error"}
    /\ app_pc' = IF "chat_logger" \in session_keys THEN "engine" ELSE "logger"
    /\ UNCHANGED << ingestVars, sheets_env, spreadsheets, logger_instance, chat_logger,
                    rendered, session_id, reply, init_attempts, engine_calls, log_failures >>

\* the engine is initialized where neither an engine nor an error is held
InitializeEngine ==
    /\ app_pc = "engine"
    /\ IF NeedsInit(chat_engine, init_error)
       THEN \E o \in InitOutcomes :
               LET result == InitializeChatEngine(o)
               IN /\ IF result.error # <<>>
                     THEN init_error' = result.error /\ UNCHANGED chat_engine
                     ELSE chat_engine' = result.engine /\ UNCHANGED init_error
                  /\ init_attempts' =
                        Append(init_attempts, [run |-> script_run, ok |-> result.error = <<>>])
       ELSE UNCHANGED << chat_engine, init_error, init_attempts >>
    /\ app_pc' = "view"
    /\ UNCHANGED << ingestVars, sheets_env, spreadsheets, logger_instance, script_run, event, prompt, rendered,
                    session_keys, messages, chat_logger, session_id, reply, engine_calls,
                    log_failures >>

\* if st.session_state.init_error: the error box and the reconnect button; return
ErrorView ==
    /\ app_pc = "view"
    /\ ErrorShown(init_error)
    /\ IF event = "reconnect"
       THEN /\ chat_engine' = <<>>
            /\ init_error' = <<>>
            /\ app_pc' = "rerun"
       ELSE /\ app_pc' = "idle"
            /\ UNCHANGED << chat_engine, init_error >>
    /\ rendered' = "error"
    /\ UNCHANGED << ingestVars, sheets_env, spreadsheets, logger_instance, script_run, event, prompt,
                    session_keys, messages, chat_logger, session_id, reply, init_attempts,
                    engine_calls, log_failures >>

\* display_sidebar with the clear button pressed
ClearChat ==
    /\ app_pc = "view"
    /\ ~ErrorShown(init_error)
    /\ event = "clear"
    /\ messages' = <<>>
    /\ IF chat_engine # <<>>
       THEN chat_engine' = <<>> /\ init_error' = <<>>
       ELSE UNCHANGED << chat_engine, init_error >>
    /\ app_pc' = "rerun"
    /\ rendered' = "chat"
    /\ UNCHANGED << ingestVars, sheets_env, spreadsheets, logger_instance, script_run, event, prompt,
                    session_keys, chat_logger, session_id, reply, init_attempts,
                    engine_calls, log_failures >>

\* the sidebar, the history and an empty chat input are displayed
ShowChat ==
    /\ app_pc = "view"
    /\ ~ErrorShown(init_error)
    /\ event \notin {"clear", "prompt"}
    /\ app_pc' = "idle"
    /\ rendered' = "chat"
    /\ UNCHANGED << ingestVars, sheets_env, spreadsheets, logger_instance, script_run, event, prompt,
                    session_keys, messages, chat_engine, init_error, chat_logger,
                    session_id, reply, init_attempts, engine_calls, log_failures >>

\* if prompt := st.chat_input(...): the user message is appended and displayed
HandlePrompt ==
    /\ app_pc = "view"
    /\ ~ErrorShown(init_error)
    /\ event = "prompt"
    /\ messages' = Append(messages, UserMessage(prompt[1]))
    /\ app_pc' = "ask"
    /\ UNCHANGED << ingestVars, sheets_env, spreadsheets, logger_instance, script_run, event, prompt, rendered,
                    session_keys, chat_engine, init_error, chat_logger, session_id, reply,
                    init_attempts, engine_calls, log_failures >>

\* response = st.session_state.chat_engine.chat(prompt); str(response): the
\* call answers or raises, and raises always when no engine is held
CallEngine ==
    /\ app_pc = "ask"
    /\ \E raises \in (IF chat_engine = <<>> THEN {TRUE} ELSE BOOLEAN) :
          /\ engine_calls' = Append(engine_calls, [prompt |-> prompt[1], ok |-> ~raises])
          /\ reply' = << [ok |-> ~raises,
                          text |-> IF ~raises THEN ResponseTo(prompt[1])
                                   ELSE IF chat_engine = <<>> THEN NoEngineMsg
                                   ELSE ErrorMsg] >>
    /\ app_pc' = "answer"
    /\ UNCHANGED << ingestVars, sheets_env, spreadsheets, logger_instance, script_run, event, prompt, rendered,
                    session_keys, messages, chat_engine, init_error, chat_logger,
                    session_id, init_attempts, log_failures >>

\* the assistant message is appended: the answer, or the error text of the
\* except branch
RecordKept ==
    /\ app_pc = "answer"
    /\ messages' = Append(messages, AssistantMessage(reply[1].text))
    /\ rendered' = "chat"
    /\ UNCHANGED << ingestVars, sheets_env, spreadsheets, logger_instance, script_run,
                    event, prompt, chat_engine, init_error, chat_logger, init_attempts,
                    engine_calls, log_failures >>

\* session_id=get_session_id(): the id is made on first use; the script goes
\* on to the write of log_conversation
ToLog ==
    /\ session_keys' = session_keys \cup {"session_id"}
    /\ session_id' = IF "session_id" \in session_keys THEN session_id ELSE << "sid" >>
    /\ app_pc' = "log"
    /\ UNCHANGED reply

\* the script run ends without a log entry
NoLog ==
    /\ app_pc' = "idle"
    /\ reply' = <<>>
    /\ UNCHANGED << session_keys, session_id >>

\* an app that logs the turn in its except branch as well
RecordAnswerLogsErrors ==
    /\ RecordKept
    /\ IF LoggingOn(chat_logger) THEN ToLog ELSE NoLog

\* st.markdown(response_text), the assistant message and, where the logger is
\* enabled, the session id for the log entry; or except Exception:
\* st.error(error_msg) and the assistant message
RecordAnswer ==
    /\ RecordKept
    /\ IF reply[1].ok /\ LoggingOn(chat_logger) THEN ToLog ELSE NoLog

\* chat_logger.log_conversation(...): self.worksheet.append_row(row) on the
\* worksheet the session's logger holds; an exception of the write is caught
\* and the script run ends
LogAnswer ==
    /\ app_pc = "log"
    /\ \E writeFails \in BOOLEAN :
          /\ spreadsheets' =
                [spreadsheets EXCEPT ![logger_instance["app"].spreadsheet].rows =
                   LogConversation(chat_logger[1], @,
                                   TurnRow(session_id[1], prompt[1], reply[1].text),
                                   writeFails)]
          /\ log_failures' = log_failures + (IF writeFails THEN 1 ELSE 0)
    /\ app_pc' = "idle"
    /\ reply' = <<>>
    /\ UNCHANGED << ingestVars, sheets_env, logger_instance, script_run, event, prompt,
                    rendered, session_keys, messages, chat_engine, init_error, chat_logger,
                    session_id, init_attempts, engine_calls >>

\* a widget event arrives while the script runs: the script is stopped at its
\* next call into st, by an exception that is no Exception, and whatever it
\* had not done yet is not done
StopScript ==
    /\ app_pc \in {"engine", "view", "ask", "answer"}
    /\ rendered # "none"
    /\ app_pc' = "idle"
    /\ reply' = <<>>
    /\ UNCHANGED << ingestVars, sheets_env, spreadsheets, logger_instance, script_run, event, prompt, rendered,
                    session_keys, messages, chat_engine, init_error, chat_logger,
                    session_id, init_attempts, engine_calls, log_failures >>

\* a browser session opens the app against any state of the log spreadsheet;
\* the ingestion script is not running
AppInit ==
    /\ sheets_env \in SheetsEnvs
    /\ spreadsheets \in SheetsBefore(sheets_env)
    /\ logger_instance = [p \in Procs |-> NoLogger]
    /\ app_pc = "idle"
    /\ script_run = 0
    /\ event = "none"
    /\ prompt = <<>>
    /\ rendered = "none"
    /\ session_keys = {}
    /\ messages = <<>>
    /\ chat_engine = <<>>
    /\ init_error = <<>>
    /\ chat_logger = <<>>
    /\ session_id = <<>>
    /\ reply = <<>>
    /\ init_attempts = <<>>
    /\ engine_calls = <<>>
    /\ log_failures = 0
    /\ env = required_vars
    /\ credsFileExists = TRUE
    /\ drive = << >>
    /\ denied = {}
    /\ splitPages = FALSE
    /\ docYield = << >>
    /\ docChunks = << >>
    /\ faultsLeft = 0
    /\ indexes = {IndexName}
    /\ vectors = {}
    /\ run = 1
    /\ FreshRun
    /\ runStats = <<>>

AppNext ==
    \/ BeginRun \/ InitializeEngine \/ ErrorView \/ ClearChat \/ ShowChat
    \/ HandlePrompt \/ CallEngine \/ RecordAnswer \/ StopScript
    \/ LogAnswer
    \/ GetLogger \/ OpenSpreadsheet \/ CreateSpreadsheet \/ ShareSpreadsheet
    \/ SetupFirstSheet \/ SetupTitle \/ SetupHeader \/ SetupFormat
    \/ GetWorksheet \/ UseFirstSheet \/ RenameFirstSheet
    \/ CheckHeader \/ InsertHeader \/ LogTestTurn

AppSpec == AppInit /\ [][AppNext]_vars

\* ------------------------------------------------------------------ claims
ReturnedIds == { files_list[k].id : k \in 1..Len(files_list) }
ReachableLeaves ==
    { i \in Items : ~IsFolderItem(i) /\ Ancestors(i) \subseteq (Folders \cup {Root}) }
NoListingFailed == failedFirst = {} /\ failedLater = {}
ReturnedBelow(f) == { i \in ReturnedIds : f \in Ancestors(i) }
ReturnedFrom(f) == { i \in ReturnedIds : drive[i].parent = f }

\* C1: when every listing call succeeds, the lister returns one record per
\* non-folder item reachable from the root, at any depth, whatever the division
\* of each folder's children into pages and the order of the pages.
C1_ListerReturnsEveryLeaf ==
    (pc = "listed" /\ NoListingFailed) =>
        /\ Len(files_list) = Cardinality(ReachableLeaves)
        /\ ReturnedIds = ReachableLeaves

\* a finished, failure-free listing of a nested tree whose pages came out of order
C1_Witness ==
    /\ pc = "listed" /\ NoListingFailed
    /\ \E k \in 1..Len(files_list) : Cardinality(Ancestors(files_list[k].id)) >= 3
    /\ \E k, l \in 1..Len(files_list) :
          /\ k < l
          /\ files_list[k].path = files_list[l].path
          /\ files_list[k].id > files_list[l].id

\* C4 as stated: a folder whose listing failed on any page contributes no file,
\* directly or through its subtree.
C4_FailedFolderContributesNothing ==
    pc = "listed" => \A f \in failedFirst \cup failedLater : ReturnedBelow(f) = {}

\* C4 amended: a first-page failure leaves the folder and its subtree without
\* files; a later-page failure keeps exactly what the earlier pages delivered;
\* every folder that was delivered is still dequeued.
C4_FailedFolderKeepsDeliveredPages ==
    pc = "listed" =>
        /\ \A f \in failedFirst : ReturnedBelow(f) = {}
        /\ \A f \in failedLater :
              ReturnedFrom(f) = { i \in Children(f) \cap received : ~IsFolderItem(i) }
        /\ Range(dequeued) = {Root} \cup { i \in received : IsFolderItem(i) }

\* both kinds of failure happened, files were kept from a folder that failed late,
\* and a folder was scanned after the first failure
C4_Witness ==
    /\ pc = "listed"
    /\ failedFirst # {}
    /\ \E f \in failedLater : ReturnedFrom(f) # {}
    /\ \E k \in 1..Len(dequeued) :
          /\ dequeued[k] \in failedLater
          /\ k < Len(dequeued)

\* what is left to do: items not yet delivered, folders queued, the steps of
\* the loop in hand
ListerMeasure ==
    3 * Cardinality(Items \ received) + 2 * Len(folders_to_scan)
      + (CASE pc = "page" -> 2 [] pc = "scan" -> 1 [] OTHER -> 0)

\* C5: a folder whose listing always fails contributes no file, and every other
\* folder the traversal was told of and listed without failure, its siblings
\* among them, has all its files returned; the traversal completes: it is never
\* stuck before it returns and every step brings it nearer to the return.
C5_DeniedFolderIsolated ==
    /\ [](pc = "listed" =>
            /\ \A f \in denied : ReturnedBelow(f) = {}
            /\ \A g \in ({Root} \cup (received \cap Folders)) \ (failedFirst \cup failedLater) :
                  { i \in Children(g) : ~IsFolderItem(i) } \subseteq ReturnedIds)
    /\ [](pc \in {"scan", "page"} => ENABLED ListerNext)
    /\ [][ListerMeasure' < ListerMeasure /\ ListerMeasure' >= 0]_vars

\* a denied folder holding a file, next to a sibling folder whose file is returned
C5_Witness ==
    /\ pc = "listed"
    /\ \E f \in denied \ {Root} :
          /\ \E i \in Children(f) : ~IsFolderItem(i)
          /\ \E g \in Folders \ denied :
                /\ drive[g].parent = drive[f].parent
                /\ ReturnedFrom(g) # {}

\* C2: two completed runs over the same documents in which every batch was
\* written leave the same number of index entries, and no chunk is held twice.
C2_RerunAddsNoEntries ==
    /\ \A a, b \in 1..Len(runStats) :
          (a < b /\ runStats[a].allOk /\ runStats[b].allOk
                 /\ runStats[a].docs = runStats[b].docs)
            => runStats[b].count = runStats[a].count
    /\ Cardinality({ v.chunk : v \in vectors }) = Cardinality(vectors)

ConfigErrors == { "ValueError", "FileNotFoundError" }
UncaughtErrors ==
    ConfigErrors \cup { "PineconeError", "DriveServiceError", "PipelineSetupError" }

\* C3 as stated: a non-zero exit code has one of two causes only, missing
\* configuration or an empty document list.
C3_NonZeroOnlyConfigOrNoDocuments ==
    (pc = "exited" /\ exit_code # 0) =>
        (raised \in ConfigErrors \/ outcome = "warn_no_documents")

\* C3 amended: the exit code is 0 exactly when the run reached the end of the
\* batch loop, which needs a loaded document and is not prevented by failed
\* folders, files or batches; it is 1 when an exception raised outside the
\* per-item handlers reached main, or when no document was loaded.
C3_ExitCode ==
    pc = "exited" =>
        /\ exit_code \in {0, 1}
        /\ exit_code = 0 <=> outcome = "completed"
        /\ outcome = "completed" =>
              (raised = "" /\ documents # <<>> /\ batchStart >= Len(documents))
        /\ exit_code = 1 <=> (raised \in UncaughtErrors \/ outcome = "warn_no_documents")
        /\ raised = "ValueError" <=> ~(required_vars \subseteq env)
        /\ raised = "FileNotFoundError" <=> (required_vars \subseteq env /\ ~credsFileExists)
        /\ outcome = "warn_no_documents" <=>
              (raised = "" /\ documents = <<>> /\ "pinecone.describe_index_stats" \in netCalls)

\* a partial completion: a file failed, a batch failed, and the exit code is 0
C3_Witness ==
    /\ pc = "exited" /\ exit_code = 0
    /\ error_count > 0
    /\ \E k \in 1..Len(batches) : ~batches[k].ok

SupportedIds == { supported_files[k].id : k \in 1..Len(supported_files) }
ValidFiles == { i \in SupportedIds : docYield[i] > 0 }
CorruptFiles == { i \in SupportedIds : docYield[i] = 0 }

\* the run went through the whole of load_documents_from_gdrive, every download
\* succeeded, one supported file is corrupt and nothing outside the per-item
\* handlers raised
OneCorruptFileRun ==
    /\ pc = "exited"
    /\ raised = ""
    /\ "pinecone.describe_index_stats" \in netCalls
    /\ downloadFailed = {}
    /\ Cardinality(CorruptFiles) = 1

\* C6 as stated: for any N, N valid files and one corrupt file give N successes,
\* one failure and exit code 0.
C6_OneCorruptAmongAnyN ==
    OneCorruptFileRun =>
        /\ success_count = Cardinality(ValidFiles)
        /\ error_count = 1
        /\ exit_code = 0

\* C6 amended: the same for N >= 1.
C6_OneCorruptAmongAtLeastOne ==
    (OneCorruptFileRun /\ Cardinality(ValidFiles) >= 1) =>
        /\ success_count = Cardinality(ValidFiles)
        /\ error_count = 1
        /\ exit_code = 0

\* a finished run over one valid and one corrupt file
C6_Witness ==
    /\ OneCorruptFileRun
    /\ Cardinality(ValidFiles) >= 1
    /\ success_count >= 1
    /\ error_count = 1

\* C7: with valid configuration and an empty folder tree, a run whose index
\* and drive setup succeed lists no file, writes no chunk and ends with the
\* "no documents" warning: no exception reaches main's handler and the outcome
\* is not the error outcome of missing configuration.
C7_EmptyTreeWarns ==
    (pc = "exited" /\ Items = {} /\ ConfigOk
                   /\ raised \notin {"PineconeError", "DriveServiceError"}) =>
        /\ outcome = "warn_no_documents"
        /\ outcome # "error"
        /\ raised = ""
        /\ files_list = <<>>
        /\ documents = <<>>
        /\ total_nodes = 0
        /\ batches = <<>>
        /\ "pinecone.upsert" \notin netCalls

\* the run over the empty tree has listed the root and ended with the warning
C7_Witness ==
    /\ pc = "exited" /\ Items = {} /\ ConfigOk
    /\ dequeued = << Root >>
    /\ outcome = "warn_no_documents"

\* C8: while a required variable is unset the run issues no external call, gets
\* no further than get_settings and ends with the ValueError it raises.
C8_MissingConfigStopsBeforeCalls ==
    (\E v \in required_vars : v \notin env) =>
        /\ netCalls = {}
        /\ pc \in {"start", "exited"}
        /\ pc = "exited" => (raised = "ValueError" /\ outcome = "error" /\ exit_code = 1)

\* the run with no variable set has ended
C8_Witness ==
    /\ env = {}
    /\ pc = "exited"
    /\ raised = "ValueError"

RECURSIVE ConcatDocs(_)
ConcatDocs(bs) == IF bs = <<>> THEN <<>> ELSE Head(bs).docs \o ConcatDocs(Tail(bs))

\* C9: the batches are consecutive slices of at most 50 documents, and a run
\* that entered the batch loop ends only after attempting all of them, so that
\* every document is in exactly one attempted batch, whichever batches failed.
C9_BatchesCoverDocuments ==
    /\ \A k \in 1..Len(batches) :
          /\ Len(batches[k].docs) \in 1..50
          /\ \A j \in 1..Len(batches[k].docs) :
                batches[k].docs[j] = documents[50 * (k - 1) + j]
    /\ (pc = "exited" /\ batches # <<>>) => ConcatDocs(batches) = documents

\* a finished run whose first batch failed and whose later batch was written
C9_Witness ==
    /\ pc = "exited"
    /\ Len(batches) >= 2
    /\ ~batches[1].ok
    /\ batches[Len(batches)].ok
    /\ Len(documents) > 50

SetupDone ==
    pc \in {"drive_service", "scan", "page", "listed", "download", "parse", "cleanup",
            "pipeline", "batch"}

\* C10: the index is created, with dimension 1536 and the cosine metric, exactly
\* when list_indexes did not report its name, never while it exists, and a write
\* is issued only to an existing index and, if this run created it, after the
\* settle wait.
C10_CreateIfAbsentThenSettle ==
    /\ [](SetupDone => (created # <<>> <=> IndexName \notin existing_indexes))
    /\ [](created # <<>> =>
            created[1] = [name |-> IndexName, dimension |-> 1536, metric |-> "cosine"])
    /\ []("pinecone.upsert" \in netCalls =>
            (IndexName \in indexes /\ (created # <<>> => settled)))
    /\ [][(created' # <<>> /\ created = <<>>) => IndexName \notin indexes]_vars

\* a write into an index this run created and waited for
C10_Witness ==
    /\ "pinecone.upsert" \in netCalls
    /\ created # <<>>
    /\ settled
    /\ IndexName \notin existing_indexes

\* C17 as stated: no returned record is a folder or a shortcut.
C17_NoFolderNoShortcut ==
    pc = "listed" =>
        \A k \in 1..Len(files_list) : files_list[k].mimeType \notin {FOLDER, SHORTCUT}

\* C17 amended: no returned record is a folder; every other item a listing call
\* delivered is returned once, shortcuts included, and when no listing failed
\* the result is the set of all non-folder items of the tree.
C17_NoFolderButShortcuts ==
    pc = "listed" =>
        /\ \A k \in 1..Len(files_list) : files_list[k].mimeType # FOLDER
        /\ ReturnedIds = { i \in received : drive[i].mimeType # FOLDER }
        /\ Len(files_list) = Cardinality(ReturnedIds)
        /\ NoListingFailed => ReturnedIds = { i \in Items : drive[i].mimeType # FOLDER }

\* a finished listing that returned a shortcut found inside a sub-folder
C17_Witness ==
    /\ pc = "listed"
    /\ \E k \in 1..Len(files_list) :
          files_list[k].mimeType = SHORTCUT /\ files_list[k].path # ""

\* the folders from the root (excluded) down to folder f
RECURSIVE FolderChain(_)
FolderChain(f) == IF f = Root THEN <<>> ELSE Append(FolderChain(drive[f].parent), f)

\* the names of a chain of folders joined by slashes
RECURSIVE JoinNames(_)
JoinNames(chain) ==
    IF chain = <<>> THEN ""
    ELSE IF Len(chain) = 1 THEN ItemName(chain[1])
    ELSE JoinNames(SubSeq(chain, 1, Len(chain) - 1)) \o "/" \o ItemName(chain[Len(chain)])

\* C18: every returned record carries the slash-joined names of the folders from
\* the root (excluded) down to the folder it was found in, the empty path right
\* under the root; every queued or dequeued folder carries that path extended by
\* its own name.
C18_PathIsJoinedFolderNames ==
    /\ \A k \in 1..Len(files_list) :
          files_list[k].path = JoinNames(FolderChain(drive[files_list[k].id].parent))
    /\ \A k \in 1..Len(files_list) :
          drive[files_list[k].id].parent = Root => files_list[k].path = ""
    /\ \A k \in 1..Len(folders_to_scan) :
          folders_to_scan[k].path = JoinNames(FolderChain(folders_to_scan[k].id))
    /\ current # <<>> => current[1].path = JoinNames(FolderChain(current[1].id))

\* a finished listing with a file right under the root and a file two folders down
C18_Witness ==
    /\ pc = "listed"
    /\ \E k \in 1..Len(files_list) : files_list[k].path = ""
    /\ \E k \in 1..Len(files_list) :
          /\ Len(FolderChain(drive[files_list[k].id].parent)) = 2
          /\ files_list[k].path \in {"a/a", "a/b", "b/a", "b/b"}

\* the run is past load_documents_from_gdrive
LoadReturned == pc \in {"exited", "pipeline", "batch"}

\* the type filter has run (a run ends without an exception only after it)
Filtered ==
    \/ pc \in {"download", "parse", "cleanup", "pipeline", "batch"}
    \/ pc = "exited" /\ raised = ""

DownloadedIds == { downloads[k].id : k \in 1..Len(downloads) }
DocsOfFile(i) == { k \in 1..Len(documents) : documents[k].file = i }

\* C11: the artifact of a file is gone before the next file is materialized, so
\* the temporary directory never holds more than one artifact, holds none
\* between two files and none once the function has returned.
C11_ArtifactDeletedBeforeNext ==
    /\ Cardinality(temp_dir) <= 1
    /\ pc = "download" => temp_dir = {}
    /\ LoadReturned => temp_dir = {}

\* C12: a failed download makes that file alone unavailable: it is counted as
\* failed, never handed to the reader, yields no document, and the loop goes on
\* to the end of the list, where every other supported file has been downloaded
\* and handed to the reader.
C12_DownloadFailureIsolated ==
    /\ \A i \in downloadFailed :
          /\ i \notin Range(extractions)
          /\ DocsOfFile(i) = {}
    /\ error_count >= Cardinality(downloadFailed)
    /\ Len(skip_log) <= Cardinality(downloadFailed)
    /\ (pc = "exited" /\ Filtered) =>
          /\ fileIdx = Len(supported_files)
          /\ Range(extractions) = SupportedIds \ downloadFailed
          /\ \A i \in SupportedIds \ downloadFailed : docYield[i] > 0 => DocsOfFile(i) # {}
          /\ raised = ""
    /\ (pc = "pipeline") =>
          /\ fileIdx = Len(supported_files)
          /\ Range(extractions) = SupportedIds \ downloadFailed

\* two downloads failed for different reasons and a later file was still read
C12_Witness ==
    /\ pc = "pipeline"
    /\ \E k \in 1..Len(skip_log) : skip_log[k].reason = "Too large for export"
    /\ \E k \in 1..Len(skip_log) : skip_log[k].reason # "Too large for export"
    /\ \E k \in 1..Len(supported_files) :
          /\ supported_files[k].id \notin downloadFailed
          /\ \E j \in 1..(k - 1) : supported_files[j].id \in downloadFailed
          /\ DocsOfFile(supported_files[k].id) # {}

\* C13: every document carries the name, the remote path and the source
\* identifier of the file it was read from; a file the reader cannot parse gives
\* no document and no exception: the loop goes on and the function returns.
C13_MetadataAttachedNoRaise ==
    /\ \A k \in 1..Len(documents) :
          LET i == documents[k].file
          IN /\ documents[k].metadata.file_name = ItemName(i)
             /\ documents[k].metadata.file_path = JoinNames(FolderChain(drive[i].parent))
             /\ documents[k].metadata.source = "gdrive:" \o ToString(i)
    /\ \A i \in Range(extractions) :
          Cardinality(DocsOfFile(i)) = IF pc = "parse" /\ i = supported_files[fileIdx + 1].id
                                       THEN 0 ELSE docYield[i]
    /\ raised \in {"", "DriveServiceError"}
    /\ (pc = "exited" /\ Filtered) => Range(extractions) = SupportedIds \ downloadFailed

\* an unparseable file was read before a file in a sub-folder that gave documents
C13_Witness ==
    /\ LoadReturned
    /\ \E a, b \in 1..Len(extractions) :
          /\ a < b
          /\ docYield[extractions[a]] = 0
          /\ docYield[extractions[b]] > 0
          /\ drive[extractions[b]].parent # Root
          /\ Cardinality(DocsOfFile(extractions[b])) = 2

ProcessTypes == SUPPORTED_MIME_TYPES \cup GOOGLE_EXPORT_TYPES
CountOfType(types) == Cardinality({ k \in 1..Len(files_list) : files_list[k].mimeType \in types })

\* C14: the classes are disjoint, so every listed file is in exactly one of: to
\* be processed (direct download or export), skipped type, unrecognized type;
\* the three counts are the sizes of the classes and sum to the number of files
\* listed; requests go to files to be processed only, an export request to an
\* export-required file and a content request to a directly downloadable one.
C14_ThreeClasses ==
    /\ SKIP_MIME_TYPES \cap ProcessTypes = {}
    /\ SUPPORTED_MIME_TYPES \cap GOOGLE_EXPORT_TYPES = {}
    /\ Filtered =>
          /\ Len(supported_files) = CountOfType(ProcessTypes)
          /\ skipped_stats.skipped = CountOfType(SKIP_MIME_TYPES)
          /\ skipped_stats.unknown =
                Len(files_list) - CountOfType(SKIP_MIME_TYPES) - CountOfType(ProcessTypes)
          /\ Len(supported_files) + skipped_stats.skipped + skipped_stats.unknown
                = Len(files_list)
    /\ \A k \in 1..Len(downloads) :
          /\ drive[downloads[k].id].mimeType \in ProcessTypes
          /\ downloads[k].kind = "export_media"
                <=> drive[downloads[k].id].mimeType \in GOOGLE_EXPORT_TYPES
          /\ downloads[k].kind = "get_media"
                <=> drive[downloads[k].id].mimeType \in SUPPORTED_MIME_TYPES
    /\ (LoadReturned /\ Filtered /\ raised = "") =>
          DownloadedIds = { i \in ReturnedIds : drive[i].mimeType \in ProcessTypes }

\* a finished load over a skipped file, an unrecognized file and an exported one
C14_Witness ==
    /\ LoadReturned
    /\ skipped_stats.skipped >= 1
    /\ skipped_stats.unknown >= 1
    /\ \E k \in 1..Len(downloads) : downloads[k].kind = "export_media"

\* C15: every file the loop has gone through is counted once, as parsed or as
\* failed; at the end the two counts sum to the number of supported files, the
\* success count is the number of files with a document in the list, and no
\* per-file error has reached the caller.
C15_EveryFileCountedOnce ==
    /\ success_count + error_count = fileIdx + (IF pc = "cleanup" THEN 1 ELSE 0)
    /\ success_count =
          Cardinality({ i \in SupportedIds : DocsOfFile(i) # {} })
    /\ (LoadReturned /\ Filtered) =>
          /\ success_count + error_count = Len(supported_files)
          /\ error_count = Cardinality({ i \in SupportedIds : DocsOfFile(i) = {} })
    /\ raised \in {"", "DriveServiceError"}

\* a finished load with a parsed file, an unparseable file and a failed download
C15_Witness ==
    /\ LoadReturned
    /\ success_count = 1
    /\ error_count = 2
    /\ downloadFailed # {}
    /\ \E i \in Range(extractions) : docYield[i] = 0

\* where a file of the store stands in the run
Stage(i) ==
    IF i \notin ReturnedIds THEN "unlisted"
    ELSE IF ~Filtered THEN "discovered"
    ELSE IF i \notin SupportedIds THEN "skipped"
    ELSE IF i \in downloadFailed THEN "unavailable"
    ELSE IF i \notin DownloadedIds THEN "discovered"
    ELSE IF i \notin Range(extractions) THEN "materialized"
    ELSE IF DocsOfFile(i) = {} THEN "extraction_failed"
    ELSE "queued"

\* the steps of the state machine of one file
StageSteps ==
    { << "unlisted", "discovered" >>,
      << "discovered", "skipped" >>,
      << "discovered", "unavailable" >>,
      << "discovered", "materialized" >>,
      << "materialized", "extraction_failed" >>,
      << "materialized", "queued" >> }

\* C16: within a run a file changes its state only by a step of the state
\* machine Discovered, (skipped | materialized or unavailable), (extraction
\* failed | queued), never backwards, and no file is requested from the store or
\* handed to the reader twice.
C16_FilesMoveForwardOnly ==
    /\ [][(run' = run) =>
            (\A i \in Items :
                (Stage(i)' = Stage(i)) \/ (<< Stage(i), Stage(i)' >> \in StageSteps))]_vars
    /\ [](\A k, l \in 1..Len(downloads) : k # l => downloads[k].id # downloads[l].id)
    /\ [](\A k, l \in 1..Len(extractions) : k # l => extractions[k] # extractions[l])
    /\ [](Cardinality(SupportedIds) = Len(supported_files))

\* a finished load with a queued, a skipped and an unavailable file
C16_Witness ==
    /\ LoadReturned
    /\ \E i, j, k \in Items :
          /\ Stage(i) = "queued"
          /\ Stage(j) = "skipped"
          /\ Stage(k) = "unavailable"

\* a chunk, embed or upsert step has started
BatchingStarted ==
    \/ pc \in {"pipeline", "batch"}
    \/ batches # <<>>
    \/ "openai.embed" \in netCalls
    \/ "pinecone.upsert" \in netCalls

\* C20: once a chunk, embed or upsert step has started, every supported file has
\* had its download attempted and, where that gave an artifact, its extraction,
\* and the document list no longer changes while the batches run.
C20_BatchesAfterAllFiles ==
    /\ [](BatchingStarted =>
            /\ fileIdx = Len(supported_files)
            /\ SupportedIds = DownloadedIds \cup downloadFailed
            /\ Range(extractions) = SupportedIds \ downloadFailed
            /\ documents # <<>>)
    /\ [][(pc \in {"pipeline", "batch"}) => (documents' = documents)]_vars

\* batches run over the documents of two files while a third file had failed
C20_Witness ==
    /\ pc = "batch"
    /\ batches # <<>>
    /\ Len(supported_files) >= 2
    /\ error_count >= 1
    /\ success_count >= 1

\* the chunk counts of the batches that completed
RECURSIVE CompletedChunks(_)
CompletedChunks(bs) ==
    IF bs = <<>> THEN 0
    ELSE (IF Head(bs).ok THEN ChunkCount(Head(bs).docs) ELSE 0) + CompletedChunks(Tail(bs))

\* the nodes an invocation wrote to the index
NodesWrittenBy(r) == { v \in vectors : v.id[1] = r }

\* C21: the chunk total of create_and_run_pipeline is the sum of the chunk counts
\* of the batches that completed, which is the number of nodes the run wrote; a
\* failed batch adds nothing, and a run that entered the batch loop ends
\* completed with exit code 0, also when every batch failed and the total is 0.
C21_TotalIsSumOfCompletedBatches ==
    /\ total_nodes = CompletedChunks(batches)
    /\ total_nodes = Cardinality(NodesWrittenBy(run))
    /\ (\A k \in 1..Len(batches) : ~batches[k].ok) => total_nodes = 0
    /\ (pc = "exited" /\ batches # <<>>) => (exit_code = 0 /\ outcome = "completed")

\* a finished run all of whose batches failed
C21_Witness ==
    /\ pc = "exited"
    /\ batches # <<>>
    /\ \A k \in 1..Len(batches) : ~batches[k].ok
    /\ total_nodes = 0
    /\ exit_code = 0

FailedFolders == failedFirst \cup failedLater

\* C22: on every tree the traversal returns, whichever listing calls fail; by
\* then it has dequeued the root and every folder a successful listing
\* delivered, each exactly once; a failed call ends the pagination of its
\* folder (the loop is back at the queue, which the failure did not change) and
\* no folder is asked again after its call failed: each folder fails once at most.
C22_ListerTerminates ==
    /\ <>(pc = "listed")
    /\ [](pc = "listed" => Range(dequeued) = {Root} \cup (received \cap Folders))
    /\ [](Cardinality(Range(dequeued)) = Len(dequeued))
    /\ [](pc = "page" => current[1].id \notin FailedFolders)
    /\ [](failedFirst \cap failedLater = {})
    /\ [](MaxItems + 1 - faultsLeft = Cardinality(FailedFolders \ denied))
    /\ [][(FailedFolders' # FailedFolders) =>
             (pc' = "scan" /\ folders_to_scan' = folders_to_scan
                /\ files_list' = files_list /\ dequeued' = dequeued)]_vars

\* a returned traversal in which the root failed after a page that delivered a
\* folder, and that folder was dequeued and failed at its first call
C22_Witness ==
    /\ pc = "listed"
    /\ Root \in failedLater
    /\ \E f \in failedFirst : f \in received /\ f \in Range(dequeued)
    /\ Items \ received # {}

\* C23: initialize_chat_engine is called only in a script run that holds neither
\* an engine nor an error, and a run that reaches the view with neither has
\* called it; a failed call leaves the error set; while an error is held no
\* prompt reaches the history or the engine, and the error is given up in one
\* step only, the press of the reconnect button, which clears both fields and
\* asks for a rerun.
C23_InitOnlyAfterReconnect ==
    /\ [][(init_attempts' # init_attempts) =>
             (/\ chat_engine = <<>>
              /\ init_error = <<>>
              /\ Len(init_attempts') = Len(init_attempts) + 1
              /\ init_attempts'[Len(init_attempts')].ok = (init_error' = <<>>)
              /\ init_attempts'[Len(init_attempts')].ok = (chat_engine' # <<>>))]_vars
    /\ [][(app_pc = "engine" /\ app_pc' = "view" /\ chat_engine = <<>> /\ init_error = <<>>) =>
             (Len(init_attempts') = Len(init_attempts) + 1)]_vars
    /\ [][(init_error # <<>>) =>
             (messages' = messages /\ engine_calls' = engine_calls)]_vars
    /\ [][(init_error # <<>> /\ init_error' # init_error) =>
             (/\ app_pc = "view"
              /\ event = "reconnect"
              /\ init_error' = <<>>
              /\ chat_engine' = <<>>
              /\ app_pc' = "rerun")]_vars
    /\ [](init_error # <<>> => chat_engine = <<>>)
    /\ [](init_error # <<>> => ErrorShown(init_error))

\* a second call of initialize_chat_engine, made in the rerun that followed the
\* script run of the reconnect press, which began with the error of the first
\* call still held and made no call
C23_Witness ==
    /\ app_pc = "view"
    /\ event = "rerun"
    /\ Len(init_attempts) = 2
    /\ ~init_attempts[1].ok
    /\ init_attempts[2].run = script_run
    /\ init_attempts[2].run = init_attempts[1].run + 2

BetweenRuns == app_pc \in {"idle", "rerun"}

\* C24: a prompt appends the user message and then one assistant message, the
\* answer, or the error text exactly when the engine call raised; nothing else
\* changes the history but the clear button, which empties it; so between
\* script runs the history has even length and alternates user, assistant.
C24_HistoryAlternates ==
    /\ [](BetweenRuns =>
            /\ Len(messages) % 2 = 0
            /\ \A k \in 1..Len(messages) :
                  messages[k].role = (IF k % 2 = 1 THEN "user" ELSE "assistant"))
    /\ [][(messages' # messages) =>
             \/ (/\ app_pc = "view" /\ event = "prompt"
                 /\ messages' = Append(messages, UserMessage(prompt[1])))
             \/ (/\ app_pc = "answer"
                 /\ messages' = Append(messages,
                        AssistantMessage(IF engine_calls[Len(engine_calls)].ok
                                         THEN ResponseTo(prompt[1])
                                         ELSE reply[1].text))
                 /\ reply[1].ok = engine_calls[Len(engine_calls)].ok)
             \/ (app_pc = "view" /\ event = "clear" /\ messages' = <<>>)]_vars

\* the rows the app's session logged, the turn rows of any process, and the
\* calls the engine answered
RECURSIVE RowsOf(_)
RowsOf(books) == IF books = <<>> THEN <<>> ELSE books[1].rows \o RowsOf(Tail(books))
TurnRows ==
    SelectSeq(RowsOf(spreadsheets), LAMBDA r : r.kind = "turn" /\ r.session = "sid")
AllTurnRows == SelectSeq(RowsOf(spreadsheets), LAMBDA r : r.kind = "turn")
AnsweredCalls == SelectSeq(engine_calls, LAMBDA c : c.ok)
LastMessage == messages[Len(messages)]

\* C25: a turn row of the session reaches the worksheet only in the write of
\* log_conversation, which the script reaches only after an engine call that
\* did not raise and the append of its answer, with the logger enabled, and an
\* enabled logger has its worksheet; a turn row of any process is written by a
\* process whose logger is enabled, and log_conversation leaves the rows alone
\* for a disabled logger; the write, raising or not, leaves the history as it
\* is, with the answer and not an error as its last message, and a write that
\* raises ends the script run normally with the rows unchanged.
C25_LogOnlyAnsweredTurns ==
    /\ [][(TurnRows' # TurnRows) =>
             (/\ app_pc = "log"
              /\ LoggingOn(chat_logger)
              /\ engine_calls[Len(engine_calls)] = [prompt |-> prompt[1], ok |-> TRUE]
              /\ TurnRows' = Append(TurnRows, TurnRow("sid", prompt[1], ResponseTo(prompt[1]))))]_vars
    /\ [](app_pc = "log" =>
            /\ LoggingOn(chat_logger)
            /\ engine_calls # <<>>
            /\ engine_calls[Len(engine_calls)] = [prompt |-> prompt[1], ok |-> TRUE]
            /\ messages # <<>>
            /\ LastMessage = AssistantMessage(ResponseTo(prompt[1])))
    /\ [][(app_pc = "log") => (messages' = messages /\ app_pc' \in {"log", "idle"})]_vars
    /\ [](Len(TurnRows) + log_failures <= Len(AnsweredCalls))
    /\ [](~LoggingOn(chat_logger) => TurnRows = <<>> /\ log_failures = 0)
    /\ [](LoggingOn(chat_logger) => chat_logger[1].worksheet # <<>>)
    /\ [][(AllTurnRows' # AllTurnRows) =>
             (\E p \in Procs :
                 /\ logger_instance[p].enabled
                 /\ logger_instance[p].worksheet # <<>>
                 /\ logger_instance[p].spreadsheet \in DOMAIN spreadsheets
                 /\ IF p = "app" THEN app_pc = "log" ELSE logger_instance[p].pc = "log_chat")]_vars
    /\ [](\A lg \in [enabled : {FALSE}, worksheet : {<<>>, << "Conversations" >>}] :
          \A writeFails \in BOOLEAN :
          \A s \in DOMAIN spreadsheets :
             LogConversation(lg, spreadsheets[s].rows,
                             TurnRow("sid", ErrorMsg, ErrorMsg), writeFails)
                = spreadsheets[s].rows)
    /\ [][(log_failures' # log_failures) =>
             (/\ log_failures' = log_failures + 1
              /\ app_pc = "log"
              /\ spreadsheets' = spreadsheets
              /\ messages' = messages
              /\ app_pc' = "idle")]_vars

\* a session with a logged turn and a turn whose log write raised, each with
\* the answer of the engine as its assistant message
C25_Witness ==
    /\ app_pc = "idle"
    /\ TurnRows # <<>>
    /\ log_failures >= 1
    /\ Len(AnsweredCalls) = 2
    /\ Len(messages) = 4
    /\ \A k \in 1..2 : messages[2 * k] = AssistantMessage(ResponseTo(messages[2 * k - 1].content))

====
